---- MODULE Spec2Model ----
(***************************************************************************)
(* Validation core of the node (libValidator/Validator.cpp):               *)
(*   CheckBlockCosignature, CheckDirBlocks, CheckTxBlocks,                 *)
(*   CheckCreatedTransaction, CheckCreatedTransactionFromLookup.           *)
(* and the balance arithmetic of libData/AccountData/Account.cpp:          *)
(*   IncreaseBalance, DecreaseBalance, ChangeBalance.                      *)
(* Collaborators that live outside the validator (multi-signature          *)
(* primitives, consensus threshold, committee update rules, block link     *)
(* chain, DS block chain, block storage) are modelled by their contract.   *)
(***************************************************************************)
EXTENDS Integers, Sequences, FiniteSets, TLC

VARIABLES
    pc,              \* position of the caller: which entry point runs / has returned
    \* ---- CheckBlockCosignature called on its own
    block,           \* the block handed to CheckBlockCosignature
    commKeys,        \* the committee handed to CheckBlockCosignature
    cosigRet,        \* what the call did and returned
    \* ---- CheckDirBlocks: arguments
    dirBlocks,       \* the elements of the input vector the range-for has read
    nBlocks,         \* dirBlocks.size()
    initDsComm, index_num, newDSComm,
    \* ---- CheckDirBlocks: locals
    mutable_ds_comm, ret, prevdsblocknum, totalIndex, prevShardingHash,
    pos,             \* number of elements the range-for has read
    cosigLog,        \* the CheckBlockCosignature calls made by the walk, in order
    \* ---- collaborators reached through m_mediator / singletons
    dsBlockChain, blocklinkchain, blockStorage, effects,
    \* ---- CheckTxBlocks: arguments and outcome
    txBlocks, dsComm, latestBlockLink, txRet,
    \* ---- CheckCreatedTransaction / CheckCreatedTransactionFromLookup
    LOOKUP_NODE_MODE,   \* role flag of this node
    m_mode,             \* m_mediator.m_ds->m_mode
    nodeShardId, numShards, \* m_mediator.m_node->GetShardId(), getNumShards()
    m_currentEpochNum,  \* m_mediator.m_currentEpochNum
    tx, receipt,        \* the arguments
    accountStore,       \* AccountStore: address -> account
    accountStoreTemp,   \* the temporary account store UpdateAccountsTemp works on
    txnRet,             \* what the call did and returned
    \* ---- Account::IncreaseBalance / DecreaseBalance / ChangeBalance
    m_balance,          \* the balance of the account
    delta,              \* the argument of the call
    acctRet             \* what the call returned

vars == <<pc, block, commKeys, cosigRet,
          dirBlocks, nBlocks, initDsComm, index_num, newDSComm,
          mutable_ds_comm, ret, prevdsblocknum, totalIndex, prevShardingHash,
          pos, cosigLog,
          dsBlockChain, blocklinkchain, blockStorage, effects,
          txBlocks, dsComm, latestBlockLink, txRet,
          LOOKUP_NODE_MODE, m_mode, nodeShardId, numShards, m_currentEpochNum,
          tx, receipt, accountStore, accountStoreTemp, txnRet,
          m_balance, delta, acctRet>>

cosigVars == <<block, commKeys, cosigRet>>
dirVars   == <<dirBlocks, nBlocks, initDsComm, index_num, newDSComm,
               mutable_ds_comm, ret, prevdsblocknum, totalIndex,
               prevShardingHash, pos, cosigLog>>
collabVars == <<dsBlockChain, blocklinkchain, blockStorage, effects>>
txVars    == <<txBlocks, dsComm, latestBlockLink, txRet>>
nodeVars  == <<LOOKUP_NODE_MODE, m_mode, nodeShardId, numShards, m_currentEpochNum>>
txnVars   == <<nodeVars, tx, receipt, accountStore, accountStoreTemp, txnRet>>
acctVars  == <<m_balance, delta, acctRet>>

----------------------------------------------------------------------------
(* Bounds *)

\* largest committee handed to CheckBlockCosignature on its own
MaxComm == 6

\* size of the DS committee and of every shard committee in the walks
DirCommSize == 3

\* longest vector of directory blocks handed to CheckDirBlocks
MaxDirBlocks == 3

\* index_num handed to CheckDirBlocks is 0 or this
MaxIndexNum == 1

\* the block number of the local DS chain tip before a walk is 0 or this
MaxTipNum == 1

\* largest DS block number / DS epoch number carried by a directory block
MaxNum == MaxDirBlocks + MaxTipNum

\* longest vector of tx blocks handed to CheckTxBlocks
MaxTxBlocks == 3

\* largest DS index of a block link and DS block number of a tx block
MaxTxDS == 1

----------------------------------------------------------------------------
(* Generic helpers *)

Range(s) == {s[i] : i \in DOMAIN s}

None == "none"

\* all bitmaps (vector<bool>) of length n
Bitmaps(n) == [1..n -> BOOLEAN]

AllSet(n) == [i \in 1..n |-> TRUE]
AllButLast(n) == [i \in 1..n |-> i < n]

\* positions set in a bitmap
SetBits(bm) == {i \in DOMAIN bm : bm[i]}

\* a committee member: pair<PubKey, Peer>
Member(k) == <<k, 100 + k>>

\* get<PubKey>(kv)
PubKeyOf(kv) == kv[1]

----------------------------------------------------------------------------
(* Collaborators of CheckBlockCosignature *)

\* ConsensusCommon::NumForConsensus: ceil(2n/3) + 1
NumForConsensus(n) == ((2 * n + 2) \div 3) + 1

\* the aggregated key of no key at all (nullptr): the empty sum
NullKey == [k \in {} |-> 0]

\* MultiSig::AggregatePubKeys: the sum of the keys, order-free, multiplicities kept;
\* nullptr for an empty vector
AggregatePubKeys(keys) ==
    IF Len(keys) = 0 THEN NullKey
    ELSE [k \in Range(keys) |-> Cardinality({i \in DOMAIN keys : keys[i] = k})]

\* BitVector::SetBitVector: length prefix followed by the bits
SetBitVector(bm) == <<Len(bm), bm>>

\* the buffer the committee signs: header || CS1 || bitmap(B1)
SerializedHeader(b) == <<b.header, b.CS1, SetBitVector(b.B1)>>

\* MultiSig::MultiSigVerify: the signature is one over this message made with
\* the private keys behind the aggregated key
MultiSigVerify(message, sig, aggregatedKey) ==
    /\ sig.msg = message
    /\ sig.key = aggregatedKey

----------------------------------------------------------------------------
(* Validator::CheckBlockCosignature *)

\* the loop at lines 203-210: the keys of the members whose bit is set in B2.
\* B2.at(index) is evaluated for every member, so the loop needs |B2| >= |commKeys|.
RECURSIVE CollectKeys(_, _, _)
CollectKeys(comm, B2, index) ==
    IF index > Len(comm) THEN <<>>
    ELSE (IF B2[index] THEN <<PubKeyOf(comm[index])>> ELSE <<>>)
         \o CollectKeys(comm, B2, index + 1)

\* outcome of a call: the verdict, the keys collected, and how far the call went
CosigOutcome(r, keys, aggregated, verified) ==
    [ret |-> r, keys |-> keys, aggregated |-> aggregated, verified |-> verified]

\* mutant: the committee-size / bitmap-size comparison is missing
CheckBlockCosignature_NoSizeCheck(b, comm) ==
    LET n    == IF Len(comm) < Len(b.B2) THEN Len(comm) ELSE Len(b.B2)
        keys == CollectKeys(SubSeq(comm, 1, n), b.B2, 1)
    IN  IF Len(keys) # NumForConsensus(Len(b.B2))
        THEN CosigOutcome(FALSE, keys, FALSE, FALSE)
        ELSE LET aggregatedKey == AggregatePubKeys(keys)
             IN  IF aggregatedKey = NullKey
                 THEN CosigOutcome(FALSE, keys, TRUE, FALSE)
                 ELSE CosigOutcome(
                        MultiSigVerify(SerializedHeader(b), b.CS2, aggregatedKey),
                        keys, TRUE, TRUE)

\* variant: the comparison the warning at line 213 describes, count < threshold
CheckBlockCosignature_AtLeast(b, comm) ==
    IF Len(comm) # Len(b.B2)
    THEN CosigOutcome(FALSE, <<>>, FALSE, FALSE)
    ELSE LET keys == CollectKeys(comm, b.B2, 1)
         IN  IF Len(keys) < NumForConsensus(Len(b.B2))
             THEN CosigOutcome(FALSE, keys, FALSE, FALSE)
             ELSE LET aggregatedKey == AggregatePubKeys(keys)
                  IN  IF aggregatedKey = NullKey
                      THEN CosigOutcome(FALSE, keys, TRUE, FALSE)
                      ELSE CosigOutcome(
                             MultiSigVerify(SerializedHeader(b), b.CS2, aggregatedKey),
                             keys, TRUE, TRUE)

\* mutant: the number-of-signers comparison is missing
CheckBlockCosignature_NoCountCheck(b, comm) ==
    IF Len(comm) # Len(b.B2)
    THEN CosigOutcome(FALSE, <<>>, FALSE, FALSE)
    ELSE LET keys == CollectKeys(comm, b.B2, 1)
             aggregatedKey == AggregatePubKeys(keys)
         IN  IF aggregatedKey = NullKey
             THEN CosigOutcome(FALSE, keys, TRUE, FALSE)
             ELSE CosigOutcome(
                    MultiSigVerify(SerializedHeader(b), b.CS2, aggregatedKey),
                    keys, TRUE, TRUE)

CheckBlockCosignature(b, comm) ==
    IF Len(comm) # Len(b.B2)
    THEN CosigOutcome(FALSE, <<>>, FALSE, FALSE)
    ELSE LET keys == CollectKeys(comm, b.B2, 1)
         IN  IF Len(keys) # NumForConsensus(Len(b.B2))
             THEN CosigOutcome(FALSE, keys, FALSE, FALSE)
             ELSE LET aggregatedKey == AggregatePubKeys(keys)
                  IN  IF aggregatedKey = NullKey
                      THEN CosigOutcome(FALSE, keys, TRUE, FALSE)
                      ELSE CosigOutcome(
                             MultiSigVerify(SerializedHeader(b), b.CS2, aggregatedKey),
                             keys, TRUE, TRUE)

----------------------------------------------------------------------------
(* State of the collaborators before any validator call *)

\* a shard committee: vector<tuple<PubKey, Peer, uint16_t>>, keys base+1, base+2, ...
ShardComm(base, n) == [i \in 1..n |-> <<base + i, 100 + base + i, 0>>]

\* the sharding structures (DequeOfShard) of the model: one shard, two shards,
\* and one the messenger fails to serialize
ShardsA == <<ShardComm(20, DirCommSize)>>
ShardsB == <<ShardComm(30, DirCommSize), ShardComm(40, DirCommSize)>>
ShardsC == <<ShardComm(50, DirCommSize), ShardComm(60, DirCommSize), ShardComm(70, DirCommSize)>>

HashA == "hashA"
HashB == "hashB"
NoHash == "nohash"

\* Messenger::GetShardingStructureHash: the SHA-256 of the serialized structure,
\* tabulated on the structures of the model; ok = FALSE when serializing fails
GetShardingStructureHash(shards) ==
    IF shards = ShardsA THEN [ok |-> TRUE, hash |-> HashA]
    ELSE IF shards = ShardsB THEN [ok |-> TRUE, hash |-> HashB]
    ELSE [ok |-> FALSE, hash |-> NoHash]

\* the DS block at the tip of the local DS chain before any validator call
TipDSBlock(num) == [kind |-> "DS", blockHash |-> num,
                    header |-> [blockNum |-> num, shardingHash |-> HashA]]

CollabInitAt(num) ==
    /\ dsBlockChain = <<TipDSBlock(num)>>
    /\ blocklinkchain = <<>>
    /\ blockStorage = {}
    /\ effects = <<>>

CosigIdle == block = None /\ commKeys = <<>> /\ cosigRet = None

DirIdle ==
    /\ dirBlocks = <<>> /\ nBlocks = 0
    /\ initDsComm = <<>> /\ index_num = 0 /\ newDSComm = <<>>
    /\ mutable_ds_comm = <<>> /\ ret = TRUE /\ prevdsblocknum = 0 /\ totalIndex = 0
    /\ prevShardingHash = None /\ pos = 0 /\ cosigLog = <<>>

TxIdle == txBlocks = <<>> /\ dsComm = <<>> /\ latestBlockLink = None /\ txRet = None

\* a node on which no transaction is being checked
TxnIdle ==
    /\ LOOKUP_NODE_MODE = FALSE /\ m_mode = "IDLE"
    /\ nodeShardId = 0 /\ numShards = 1 /\ m_currentEpochNum = 0
    /\ tx = None /\ receipt = None
    /\ accountStore = <<>> /\ accountStoreTemp = <<>>
    /\ txnRet = None

\* no balance operation is being made
AcctIdle == m_balance = 0 /\ delta = 0 /\ acctRet = None

----------------------------------------------------------------------------
(* CheckBlockCosignature on its own: inputs *)

\* a committee of n members with keys 11, 12, ...
Roster(n) == [i \in 1..n |-> Member(10 + i)]

\* the co-signature a set of committee positions produces over a message
CoSignature(comm, signers, message) ==
    [key |-> AggregatePubKeys(CollectKeys(comm, [i \in 1..Len(comm) |-> i \in signers], 1)),
     msg |-> message]

\* a block that carries bitmaps B1, B2 and a second-round signature made by
\* `signers` of `comm`, over the block's own buffer when genuine, else over
\* some other buffer
CosignedBlock(hdr, B1, B2, comm, signers, genuine) ==
    LET unsignedBlock == [header |-> hdr, CS1 |-> "cs1", B1 |-> B1, B2 |-> B2]
        message == IF genuine THEN SerializedHeader(unsignedBlock) ELSE <<"other">>
    IN  [header |-> hdr, CS1 |-> "cs1", B1 |-> B1, B2 |-> B2,
         CS2 |-> CoSignature(comm, signers, message)]

\* blocks offered to a committee of n: every B2 of the committee's length with
\* every set of signers; the same with a signature over another buffer or a B1
\* of another length, made by the members B2 names; and B2 one shorter or
\* longer than the committee
CosigInputs(n) ==
    {CosignedBlock("hdr", AllSet(n), B2, Roster(n), S, TRUE) :
        B2 \in Bitmaps(n), S \in SUBSET (1..n)}
    \cup
    {CosignedBlock("hdr", B1, B2, Roster(n), SetBits(B2), g) :
        B1 \in {AllSet(n), <<TRUE>>}, B2 \in Bitmaps(n), g \in BOOLEAN}
    \cup
    {CosignedBlock("hdr", B2, B2, Roster(n), SetBits(B2) \cap (1..n), TRUE) :
        B2 \in UNION {Bitmaps(m) : m \in {n - 1, n + 1} \cap (0..MaxComm)}}

InitCoSig ==
    /\ pc = "cosig_call"
    /\ \E n \in 0..MaxComm :
          /\ commKeys = Roster(n)
          /\ block \in CosigInputs(n)
    /\ cosigRet = None
    /\ DirIdle /\ CollabInitAt(0) /\ TxIdle /\ TxnIdle /\ AcctIdle

CallCheckBlockCosignature ==
    /\ pc = "cosig_call"
    /\ cosigRet' = CheckBlockCosignature(block, commKeys)
    /\ pc' = "cosig_done"
    /\ UNCHANGED <<block, commKeys, dirVars, collabVars, txVars, txnVars,
                   acctVars>>

NextCoSig == CallCheckBlockCosignature

SpecCoSig == InitCoSig /\ [][NextCoSig]_vars

----------------------------------------------------------------------------
(* Claims about CheckBlockCosignature *)

\* the keys of the committee at the positions set in B2
SelectedKeys(b, comm) == CollectKeys(comm, b.B2, 1)

\* the verdict the contract of C1 prescribes
ContractVerdict(b, comm) ==
    /\ Len(comm) = Len(b.B2)
    /\ Cardinality(SetBits(b.B2)) >= NumForConsensus(Len(b.B2))
    /\ MultiSigVerify(SerializedHeader(b), b.CS2,
                      AggregatePubKeys(SelectedKeys(b, comm)))

\* C1: the call returns true if and only if the sizes agree, at least
\* NumForConsensus positions are set in B2 and the multi-signature check passes
\* for the selected keys; a block with more signers than the threshold is
\* accepted when its signature verifies.
C1_VerdictIsContract ==
    pc = "cosig_done" => cosigRet.ret = ContractVerdict(block, commKeys)

\* C2: a committee whose size differs from |B2| is rejected before any key is
\* collected or aggregated and before any signature is checked.
C2_SizeMismatchRejectedFirst ==
    (pc = "cosig_done" /\ Len(commKeys) # Len(block.B2)) =>
        /\ cosigRet.ret = FALSE
        /\ cosigRet.keys = <<>>
        /\ ~cosigRet.aggregated
        /\ ~cosigRet.verified

C2_Witness ==
    /\ pc = "cosig_done"
    /\ Len(commKeys) # Len(block.B2)
    /\ Cardinality(SetBits(block.B2)) = NumForConsensus(Len(block.B2))
    /\ cosigRet.ret = FALSE

\* the block with bit i of B2 cleared, all else equal
ClearBit(b, i) == [b EXCEPT !.B2[i] = FALSE]

\* C3 as stated: clearing a set bit of B2 never turns a rejected block into an
\* accepted one.
C3_ClearingNeverAccepts ==
    pc = "cosig_done" =>
        \A i \in SetBits(block.B2) :
            CheckBlockCosignature(ClearBit(block, i), commKeys).ret => cosigRet.ret

\* C3 amended: clearing a set bit of an accepted block always gives a rejected
\* block; a rejected block becomes accepted that way only if exactly
\* NumForConsensus + 1 bits were set and CS2 verifies for the remaining keys.
C3_ClearingAcceptedRejects ==
    pc = "cosig_done" =>
        \A i \in SetBits(block.B2) :
            LET cleared == ClearBit(block, i)
                after   == CheckBlockCosignature(cleared, commKeys).ret
            IN  /\ cosigRet.ret => ~after
                /\ (~cosigRet.ret /\ after) =>
                      /\ Len(commKeys) = Len(block.B2)
                      /\ Cardinality(SetBits(block.B2)) = NumForConsensus(Len(block.B2)) + 1
                      /\ MultiSigVerify(SerializedHeader(cleared), block.CS2,
                                        AggregatePubKeys(SelectedKeys(cleared, commKeys)))

\* an accepted block was returned, and it has a bit to clear
C3_Witness ==
    /\ pc = "cosig_done"
    /\ cosigRet.ret
    /\ SetBits(block.B2) # {}

----------------------------------------------------------------------------
(* Collaborators of CheckDirBlocks *)

\* BlockLinkChain::AddBlockLink: the link (index, dsindex, blocktype, blockhash)
\* is appended to the chain
AddBlockLink(chain, index, dsindex, blocktype, blockhash) ==
    Append(chain, <<index, dsindex, blocktype, blockhash>>)

\* DSBlockChain::AddBlock / GetLastBlock
AddBlock(chain, b) == Append(chain, b)
GetLastBlock(chain) == chain[Len(chain)]

\* Serialize of a directory block: the bytes stand for the block they encode
Serialize(b) == <<"bytes", b.blockHash>>

\* BlockStorage::PutDSBlock / PutVCBlock / PutFallbackBlock: a put replaces
\* what the database held under the key
PutBlock(storage, db, key, bytes) ==
    {e \in storage : ~(e[1] = db /\ e[2] = key)} \cup {<<db, key, bytes>>}

\* Node::UpdateDSCommiteeComposition: every PoW winner of the DS block enters
\* at the front and the oldest member leaves at the back
RECURSIVE UpdateDSCommiteeComposition(_, _)
UpdateDSCommiteeComposition(comm, winners) ==
    IF winners = <<>> THEN comm
    ELSE UpdateDSCommiteeComposition(
            SubSeq(<<Head(winners)>> \o comm, 1, Len(comm)), Tail(winners))

\* Node::UpdateRetrieveDSCommiteeCompositionAfterVC: every faulty leader named
\* by the VC block that is in the committee moves to its back
RECURSIVE UpdateRetrieveDSCommiteeCompositionAfterVC(_, _)
UpdateRetrieveDSCommiteeCompositionAfterVC(faulty, comm) ==
    IF faulty = <<>> THEN comm
    ELSE LET f    == Head(faulty)
             rest == SelectSeq(comm, LAMBDA m : m # f)
             next == IF f \in Range(comm) THEN Append(rest, f) ELSE comm
         IN  UpdateRetrieveDSCommiteeCompositionAfterVC(Tail(faulty), next)

\* Node::UpdateDSCommitteeAfterFallback: the DS committee becomes the members
\* of the shard that signed, its leader first
UpdateDSCommitteeAfterFallback(shard_id, leaderPubKey, leaderNetworkInfo, comm, shards) ==
    LET shard   == shards[shard_id + 1]
        asDS(m) == <<m[1], m[2]>>
        isLeader(m) == m[1] = leaderPubKey /\ m[2] = leaderNetworkInfo
        leaders == SelectSeq(shard, isLeader)
        others  == SelectSeq(shard, LAMBDA m : ~isLeader(m))
    IN  [i \in 1..Len(leaders) |-> asDS(leaders[Len(leaders) + 1 - i])]
        \o [i \in 1..Len(others) |-> asDS(others[i])]

----------------------------------------------------------------------------
(* Validator::CheckDirBlocks: the body of the range-for, one branch per      *)
(* block type, acting on the locals and the collaborators the walk reaches   *)

Walker ==
    [ret |-> ret, threw |-> FALSE, pos |-> pos + 1,
     prevdsblocknum |-> prevdsblocknum, prevShardingHash |-> prevShardingHash,
     totalIndex |-> totalIndex, mutable_ds_comm |-> mutable_ds_comm,
     blocklinkchain |-> blocklinkchain, dsBlockChain |-> dsBlockChain,
     blockStorage |-> blockStorage, effects |-> effects, cosigLog |-> cosigLog]

\* ret = false; break;
Break(w) == [w EXCEPT !.ret = FALSE]

\* a CheckBlockCosignature call of the walk, recorded with the element it is for
LogCosig(w, b, comm, c) ==
    [w EXCEPT !.cosigLog =
        Append(@, [pos |-> w.pos, block |-> b.blockHash, comm |-> comm, ret |-> c.ret])]

Effect(op, p, arg) == [op |-> op, pos |-> p, arg |-> arg]

\* mutant: totalIndex is not advanced after a DS block
DSAccept_NoIndexStep(w, dsblock) ==
    LET num == w.prevdsblocknum + 1
    IN  [w EXCEPT
            !.prevdsblocknum = num,
            !.prevShardingHash = dsblock.header.shardingHash,
            !.blocklinkchain =
                AddBlockLink(@, w.totalIndex, num, "DS", dsblock.blockHash),
            !.dsBlockChain = AddBlock(@, dsblock),
            !.blockStorage =
                PutBlock(@, "DS", dsblock.header.blockNum, Serialize(dsblock)),
            !.mutable_ds_comm =
                UpdateDSCommiteeComposition(@, dsblock.header.powWinners),
            !.effects = @ \o
                << Effect("AddBlockLink", w.pos,
                          <<w.totalIndex, num, "DS", dsblock.blockHash>>),
                   Effect("AddBlock", w.pos, <<dsblock.blockHash>>),
                   Effect("PutDSBlock", w.pos, <<dsblock.header.blockNum>>),
                   Effect("UpdateDSCommiteeComposition", w.pos, <<dsblock.blockHash>>) >>]

\* mutant: prevShardingHash is not taken from the accepted DS block
DSAccept_KeepsShardingHash(w, dsblock) ==
    [DSAccept_NoIndexStep(w, dsblock) EXCEPT
        !.prevShardingHash = w.prevShardingHash,
        !.totalIndex = @ + 1]

\* mutant: the committee is not updated after a DS block
DSAccept_NoCommitteeUpdate(w, dsblock) ==
    [DSAccept_NoIndexStep(w, dsblock) EXCEPT
        !.mutable_ds_comm = w.mutable_ds_comm,
        !.totalIndex = @ + 1]

\* mutant: prevdsblocknum is not advanced by an accepted DS block
DSAccept_KeepsPrevDS(w, dsblock) ==
    [DSAccept_NoIndexStep(w, dsblock) EXCEPT
        !.prevdsblocknum = w.prevdsblocknum,
        !.totalIndex = @ + 1]

\* lines 274-284: an accepted DS block
DSAccept(w, dsblock) ==
    LET num == w.prevdsblocknum + 1
    IN  [w EXCEPT
            !.prevdsblocknum = num,
            !.prevShardingHash = dsblock.header.shardingHash,
            !.blocklinkchain =
                AddBlockLink(@, w.totalIndex, num, "DS", dsblock.blockHash),
            !.dsBlockChain = AddBlock(@, dsblock),
            !.blockStorage =
                PutBlock(@, "DS", dsblock.header.blockNum, Serialize(dsblock)),
            !.mutable_ds_comm =
                UpdateDSCommiteeComposition(@, dsblock.header.powWinners),
            !.effects = @ \o
                << Effect("AddBlockLink", w.pos,
                          <<w.totalIndex, num, "DS", dsblock.blockHash>>),
                   Effect("AddBlock", w.pos, <<dsblock.blockHash>>),
                   Effect("PutDSBlock", w.pos, <<dsblock.header.blockNum>>),
                   Effect("UpdateDSCommiteeComposition", w.pos, <<dsblock.blockHash>>) >>,
            !.totalIndex = @ + 1]

\* mutant: a DS block is taken when its number is anywhere past the previous one
DSBranch_AcceptsGap(w, dsblock) ==
    IF dsblock.header.blockNum <= w.prevdsblocknum THEN Break(w)
    ELSE
      LET c  == CheckBlockCosignature(dsblock, w.mutable_ds_comm)
          w1 == LogCosig(w, dsblock, w.mutable_ds_comm, c)
      IN  IF ~c.ret THEN Break(w1) ELSE DSAccept(w1, dsblock)

\* mutant: a DS block is verified against the roster the walk was handed
DSBranch_VerifiesAgainstInitialRoster(w, dsblock) ==
    IF dsblock.header.blockNum # w.prevdsblocknum + 1 THEN Break(w)
    ELSE
      LET c  == CheckBlockCosignature(dsblock, initDsComm)
          w1 == LogCosig(w, dsblock, initDsComm, c)
      IN  IF ~c.ret THEN Break(w1) ELSE DSAccept(w1, dsblock)

\* lines 258-273: the checks on a DS block
DSBranch(w, dsblock) ==
    IF dsblock.header.blockNum # w.prevdsblocknum + 1 THEN Break(w)
    ELSE
      LET c  == CheckBlockCosignature(dsblock, w.mutable_ds_comm)
          w1 == LogCosig(w, dsblock, w.mutable_ds_comm, c)
      IN  IF ~c.ret THEN Break(w1) ELSE DSAccept(w1, dsblock)

\* mutant: totalIndex is not advanced after a VC block
VCAccept_NoIndexStep(w, vcblock) ==
    [w EXCEPT
        !.mutable_ds_comm =
            UpdateRetrieveDSCommiteeCompositionAfterVC(vcblock.header.faultyLeaders, @),
        !.blocklinkchain =
            AddBlockLink(@, w.totalIndex, w.prevdsblocknum + 1, "VC", vcblock.blockHash),
        !.blockStorage = PutBlock(@, "VC", vcblock.blockHash, Serialize(vcblock)),
        !.effects = @ \o
            << Effect("UpdateRetrieveDSCommiteeCompositionAfterVC", w.pos,
                      <<vcblock.blockHash>>),
               Effect("AddBlockLink", w.pos,
                      <<w.totalIndex, w.prevdsblocknum + 1, "VC", vcblock.blockHash>>),
               Effect("PutVCBlock", w.pos, <<vcblock.blockHash>>) >>]

\* mutant: the link of a VC block carries prevdsblocknum itself
VCAccept_LinksCurrentEpoch(w, vcblock) ==
    [VCAccept_NoIndexStep(w, vcblock) EXCEPT
        !.blocklinkchain =
            AddBlockLink(w.blocklinkchain, w.totalIndex, w.prevdsblocknum, "VC",
                         vcblock.blockHash),
        !.totalIndex = @ + 1]

\* lines 306-315: an accepted VC block
VCAccept(w, vcblock) ==
    [w EXCEPT
        !.mutable_ds_comm =
            UpdateRetrieveDSCommiteeCompositionAfterVC(vcblock.header.faultyLeaders, @),
        !.blocklinkchain =
            AddBlockLink(@, w.totalIndex, w.prevdsblocknum + 1, "VC", vcblock.blockHash),
        !.blockStorage = PutBlock(@, "VC", vcblock.blockHash, Serialize(vcblock)),
        !.effects = @ \o
            << Effect("UpdateRetrieveDSCommiteeCompositionAfterVC", w.pos,
                      <<vcblock.blockHash>>),
               Effect("AddBlockLink", w.pos,
                      <<w.totalIndex, w.prevdsblocknum + 1, "VC", vcblock.blockHash>>),
               Effect("PutVCBlock", w.pos, <<vcblock.blockHash>>) >>,
        !.totalIndex = @ + 1]

\* mutant: the committee is rotated before the co-signature is checked
VCBranch_UpdateBeforeVerify(w, vcblock) ==
    IF vcblock.header.viewChangeDSEpochNo # w.prevdsblocknum + 1 THEN Break(w)
    ELSE
      LET c  == CheckBlockCosignature(vcblock, w.mutable_ds_comm)
          w1 == LogCosig(w, vcblock, w.mutable_ds_comm, c)
      IN  IF ~c.ret
          THEN Break([w1 EXCEPT !.mutable_ds_comm =
                        UpdateRetrieveDSCommiteeCompositionAfterVC(
                            vcblock.header.faultyLeaders, @)])
          ELSE VCAccept(w1, vcblock)

\* mutant: a VC block is taken whatever DS epoch it names
VCBranch_AnyEpoch(w, vcblock) ==
    LET c  == CheckBlockCosignature(vcblock, w.mutable_ds_comm)
        w1 == LogCosig(w, vcblock, w.mutable_ds_comm, c)
    IN  IF ~c.ret THEN Break(w1) ELSE VCAccept(w1, vcblock)

\* lines 286-304: the checks on a VC block
VCBranch(w, vcblock) ==
    IF vcblock.header.viewChangeDSEpochNo # w.prevdsblocknum + 1 THEN Break(w)
    ELSE
      LET c  == CheckBlockCosignature(vcblock, w.mutable_ds_comm)
          w1 == LogCosig(w, vcblock, w.mutable_ds_comm, c)
      IN  IF ~c.ret THEN Break(w1) ELSE VCAccept(w1, vcblock)

\* lines 357-369: an accepted fallback block
FBAccept(w, fallbackwshardingstructure) ==
    LET fallbackblock == fallbackwshardingstructure.m_fallbackblock
        shards        == fallbackwshardingstructure.m_shards
        shard_id      == fallbackblock.header.shardId
    IN  [w EXCEPT
            !.mutable_ds_comm =
                UpdateDSCommitteeAfterFallback(
                    shard_id, fallbackblock.header.leaderPubKey,
                    fallbackblock.header.leaderNetworkInfo, @, shards),
            !.blocklinkchain =
                AddBlockLink(@, w.totalIndex, w.prevdsblocknum + 1, "FB",
                             fallbackblock.blockHash),
            !.blockStorage =
                PutBlock(@, "FB", fallbackblock.blockHash, Serialize(fallbackblock)),
            !.effects = @ \o
                << Effect("UpdateDSCommitteeAfterFallback", w.pos,
                          <<fallbackblock.blockHash>>),
                   Effect("AddBlockLink", w.pos,
                          <<w.totalIndex, w.prevdsblocknum + 1, "FB",
                            fallbackblock.blockHash>>),
                   Effect("PutFallbackBlock", w.pos, <<fallbackblock.blockHash>>) >>,
            !.totalIndex = @ + 1]

\* mutant: a fallback block is verified against the DS committee
FBBranch_VerifiesAgainstDSRoster(w, fallbackwshardingstructure) ==
    LET fallbackblock == fallbackwshardingstructure.m_fallbackblock
        shards        == fallbackwshardingstructure.m_shards
        h             == GetShardingStructureHash(shards)
        shard_id      == fallbackblock.header.shardId
    IN
    IF fallbackblock.header.fallbackDSEpochNo # w.prevdsblocknum + 1 THEN Break(w)
    ELSE IF ~h.ok THEN Break(w)
    ELSE IF h.hash # w.prevShardingHash THEN Break(w)
    ELSE IF shard_id >= Len(shards) THEN [w EXCEPT !.threw = TRUE]
    ELSE
      LET c  == CheckBlockCosignature(fallbackblock, w.mutable_ds_comm)
          w1 == LogCosig(w, fallbackblock, w.mutable_ds_comm, c)
      IN  IF ~c.ret THEN Break(w1) ELSE FBAccept(w1, fallbackwshardingstructure)

\* lines 316-356: the checks on a fallback block; shards.at(shard_id) throws
\* std::out_of_range when shard_id is no index of the bundled structure, and
\* nothing in the walk catches it
FBBranch(w, fallbackwshardingstructure) ==
    LET fallbackblock == fallbackwshardingstructure.m_fallbackblock
        shards        == fallbackwshardingstructure.m_shards
        h             == GetShardingStructureHash(shards)
        shard_id      == fallbackblock.header.shardId
    IN
    IF fallbackblock.header.fallbackDSEpochNo # w.prevdsblocknum + 1 THEN Break(w)
    ELSE IF ~h.ok THEN Break(w)
    ELSE IF h.hash # w.prevShardingHash THEN Break(w)
    ELSE IF shard_id >= Len(shards) THEN [w EXCEPT !.threw = TRUE]
    ELSE
      LET c  == CheckBlockCosignature(fallbackblock, shards[shard_id + 1])
          w1 == LogCosig(w, fallbackblock, shards[shard_id + 1], c)
      IN  IF ~c.ret THEN Break(w1) ELSE FBAccept(w1, fallbackwshardingstructure)

----------------------------------------------------------------------------
(* CheckDirBlocks: inputs *)

\* the DS committee after c DS blocks, each of which brought in one PoW winner
DSCommAfter(c) ==
    [i \in 1..DirCommSize |->
        IF i <= c THEN Member(10 + DirCommSize + (c - i + 1)) ELSE Member(10 + i - c)]

\* DS block number num, co-signed by the committee that c DS blocks produce
\* (by all of it, or by all but its last member)
DSBlock(num, c, full) ==
    LET hdr == [blockNum |-> num,
                shardingHash |-> IF num % 2 = 1 THEN HashB ELSE HashA,
                powWinners |-> <<Member(10 + DirCommSize + num)>>]
        B2  == IF full THEN AllSet(DirCommSize) ELSE AllButLast(DirCommSize)
    IN  [kind |-> "DS", blockHash |-> 1000 + 100 * num + 10 * c + (IF full THEN 1 ELSE 0)]
        @@ CosignedBlock(hdr, B2, B2, DSCommAfter(c), SetBits(B2), TRUE)

\* VC block for DS epoch `epoch`, naming the first member of its signing
\* committee as faulty leader
VCBlock(epoch, c) ==
    LET hdr == [viewChangeDSEpochNo |-> epoch,
                faultyLeaders |-> <<DSCommAfter(c)[1]>>]
        B2  == AllSet(DirCommSize)
    IN  [kind |-> "VC", blockHash |-> 2000 + 100 * epoch + 10 * c]
        @@ CosignedBlock(hdr, B2, B2, DSCommAfter(c), SetBits(B2), TRUE)

ShardsOf(s) == IF s = 1 THEN ShardsA ELSE IF s = 2 THEN ShardsB ELSE ShardsC

\* fallback block for DS epoch `epoch` bundled with sharding structure s,
\* naming shard shardId and co-signed by that shard's committee (by the first
\* shard's when shardId names none) or else by the initial DS committee
FallbackBlockWShardingStructure(epoch, s, shardId, byShard) ==
    LET shards == ShardsOf(s)
        shard  == IF shardId < Len(shards) THEN shards[shardId + 1] ELSE shards[1]
        leader == shard[Len(shard)]
        hdr == [fallbackDSEpochNo |-> epoch, shardId |-> shardId,
                leaderPubKey |-> leader[1], leaderNetworkInfo |-> leader[2]]
        B2  == AllSet(DirCommSize)
        comm == IF byShard THEN shard ELSE DSCommAfter(0)
    IN  [kind |-> "FB",
         m_shards |-> shards,
         m_fallbackblock |->
            [kind |-> "FB",
             blockHash |-> 3000 + 100 * epoch + 10 * s + 2 * shardId
                           + (IF byShard THEN 1 ELSE 0)]
            @@ CosignedBlock(hdr, B2, B2, comm, SetBits(B2), TRUE)]

DSBlocks ==
    {DSBlock(num, c, TRUE) : num \in 1..MaxNum, c \in 0..(MaxDirBlocks - 1)}
    \cup {DSBlock(num, 0, FALSE) : num \in 1..MaxNum}

VCBlocks == {VCBlock(e, c) : e \in 1..MaxNum, c \in 0..(MaxDirBlocks - 1)}

FallbackBlocks ==
    {FallbackBlockWShardingStructure(e, s, id, byShard) :
        e \in 1..MaxNum, s \in 1..3, id \in 0..1, byShard \in BOOLEAN}

\* rosters the caller passes as initDsComm
InitialCommittees == {DSCommAfter(0), SubSeq(DSCommAfter(0), 1, DirCommSize - 1)}

\* what the caller's newDSComm holds before the call
StaleComm == <<Member(99)>>

----------------------------------------------------------------------------
(* Validator::CheckDirBlocks *)

\* lines 247-255: the locals are set up from the arguments and the DS chain tip
StartCheckDirBlocks ==
    /\ pc = "idle"
    /\ \E n \in 0..MaxDirBlocks, comm \in InitialCommittees, idx \in {0, MaxIndexNum} :
          /\ nBlocks' = n
          /\ initDsComm' = comm
          /\ index_num' = idx
          /\ mutable_ds_comm' = comm
          /\ totalIndex' = idx
    /\ dirBlocks' = <<>>
    /\ pos' = 0
    /\ newDSComm' = StaleComm
    /\ ret' = TRUE
    /\ prevdsblocknum' = GetLastBlock(dsBlockChain).header.blockNum
    /\ prevShardingHash' = GetLastBlock(dsBlockChain).header.shardingHash
    /\ cosigLog' = <<>>
    /\ pc' = "walk"
    /\ UNCHANGED <<cosigVars, collabVars, txVars, txnVars,
                   acctVars>>

\* the range-for has another element to read and no break was taken
LoopContinues == pc = "walk" /\ ret /\ pos < nBlocks

\* mutant: the side effects of the element are entered ahead of the earlier ones
Iterate_EffectsAhead(b, w) ==
    /\ dirBlocks' = Append(dirBlocks, b)
    /\ pos' = pos + 1
    /\ ret' = w.ret
    /\ prevdsblocknum' = w.prevdsblocknum
    /\ prevShardingHash' = w.prevShardingHash
    /\ totalIndex' = w.totalIndex
    /\ mutable_ds_comm' = w.mutable_ds_comm
    /\ blocklinkchain' = w.blocklinkchain
    /\ dsBlockChain' = w.dsBlockChain
    /\ blockStorage' = w.blockStorage
    /\ effects' = SubSeq(w.effects, Len(effects) + 1, Len(w.effects)) \o effects
    /\ cosigLog' = w.cosigLog
    /\ pc' = IF w.threw THEN "threw" ELSE "walk"
    /\ UNCHANGED <<nBlocks, initDsComm, index_num, newDSComm, cosigVars, txVars, txnVars,
                   acctVars>>

\* mutant: mutable_ds_comm is a reference to initDsComm instead of a copy
Iterate_RosterInPlace(b, w) ==
    /\ dirBlocks' = Append(dirBlocks, b)
    /\ pos' = pos + 1
    /\ ret' = w.ret
    /\ prevdsblocknum' = w.prevdsblocknum
    /\ prevShardingHash' = w.prevShardingHash
    /\ totalIndex' = w.totalIndex
    /\ mutable_ds_comm' = w.mutable_ds_comm
    /\ initDsComm' = w.mutable_ds_comm
    /\ blocklinkchain' = w.blocklinkchain
    /\ dsBlockChain' = w.dsBlockChain
    /\ blockStorage' = w.blockStorage
    /\ effects' = w.effects
    /\ cosigLog' = w.cosigLog
    /\ pc' = IF w.threw THEN "threw" ELSE "walk"
    /\ UNCHANGED <<nBlocks, index_num, newDSComm, cosigVars, txVars, txnVars,
                   acctVars>>

\* one iteration of the range-for on element b, whose branch gave w
Iterate(b, w) ==
    /\ dirBlocks' = Append(dirBlocks, b)
    /\ pos' = pos + 1
    /\ ret' = w.ret
    /\ prevdsblocknum' = w.prevdsblocknum
    /\ prevShardingHash' = w.prevShardingHash
    /\ totalIndex' = w.totalIndex
    /\ mutable_ds_comm' = w.mutable_ds_comm
    /\ blocklinkchain' = w.blocklinkchain
    /\ dsBlockChain' = w.dsBlockChain
    /\ blockStorage' = w.blockStorage
    /\ effects' = w.effects
    /\ cosigLog' = w.cosigLog
    /\ pc' = IF w.threw THEN "threw" ELSE "walk"
    /\ UNCHANGED <<nBlocks, initDsComm, index_num, newDSComm, cosigVars, txVars, txnVars,
                   acctVars>>

WalkDSBlock ==
    /\ LoopContinues
    /\ \E b \in DSBlocks : Iterate(b, DSBranch(Walker, b))

WalkVCBlock ==
    /\ LoopContinues
    /\ \E b \in VCBlocks : Iterate(b, VCBranch(Walker, b))

WalkFallbackBlock ==
    /\ LoopContinues
    /\ \E b \in FallbackBlocks : Iterate(b, FBBranch(Walker, b))

\* lines 375-376: newDSComm = move(mutable_ds_comm); return ret;
ReturnCheckDirBlocks ==
    /\ pc = "walk"
    /\ ~ret \/ pos = nBlocks
    /\ newDSComm' = mutable_ds_comm
    /\ pc' = "returned"
    /\ UNCHANGED <<dirBlocks, nBlocks, initDsComm, index_num, mutable_ds_comm, ret,
                   prevdsblocknum, totalIndex, prevShardingHash, pos, cosigLog,
                   cosigVars, collabVars, txVars, txnVars,
                   acctVars>>

InitDir ==
    /\ pc = "idle"
    /\ \E num \in {0, MaxTipNum} : CollabInitAt(num)
    /\ CosigIdle /\ DirIdle /\ TxIdle /\ TxnIdle /\ AcctIdle

NextDir ==
    \/ StartCheckDirBlocks
    \/ WalkDSBlock
    \/ WalkVCBlock
    \/ WalkFallbackBlock
    \/ ReturnCheckDirBlocks

SpecDir == InitDir /\ [][NextDir]_vars

----------------------------------------------------------------------------
(* Claims about CheckDirBlocks *)

InWalk == pc \in {"walk", "returned", "threw"}

\* number of elements read so far that passed every check
Accepted == IF ret /\ pc # "threw" THEN pos ELSE pos - 1

AcceptedPrefix == SubSeq(dirBlocks, 1, Accepted)

CountDS(blocks) == Cardinality({i \in DOMAIN blocks : blocks[i].kind = "DS"})

HashOfDirBlock(b) == IF b.kind = "FB" THEN b.m_fallbackblock.blockHash ELSE b.blockHash

\* the DS block that was the tip of the local chain when the walk started
TipAtStart == dsBlockChain[Len(dsBlockChain) - CountDS(AcceptedPrefix)]

\* C4: an accepted DS block carries the number prevDS + 1, prevDS starting at
\* the local tip and growing by one per accepted DS block; DS blocks n+1, n+3
\* after tip n fail at the second block.
C4_DSBlocksSequential ==
    InWalk =>
        /\ prevdsblocknum = TipAtStart.header.blockNum + CountDS(AcceptedPrefix)
        /\ \A i \in 1..Accepted :
              dirBlocks[i].kind = "DS" =>
                 dirBlocks[i].header.blockNum =
                    TipAtStart.header.blockNum + CountDS(SubSeq(dirBlocks, 1, i))
        /\ (/\ pos >= 2
            /\ dirBlocks[1].kind = "DS" /\ dirBlocks[2].kind = "DS"
            /\ dirBlocks[1].header.blockNum = TipAtStart.header.blockNum + 1
            /\ dirBlocks[2].header.blockNum = TipAtStart.header.blockNum + 3)
           => (~ret /\ pos = 2 /\ Len(blocklinkchain) = 1)

\* the walk of DS blocks n+1, n+3 has returned: first accepted, second refused
C4_Witness ==
    /\ pc = "returned" /\ ~ret /\ pos = 2
    /\ dirBlocks[1].kind = "DS" /\ dirBlocks[2].kind = "DS"
    /\ dirBlocks[1].header.blockNum = TipAtStart.header.blockNum + 1
    /\ dirBlocks[2].header.blockNum = TipAtStart.header.blockNum + 3
    /\ TipAtStart.header.blockNum > 0
    /\ Len(dsBlockChain) = 2

\* C5: when the walk returns true, prevDS is the initial tip number plus the
\* number of DS blocks of the input, totalIndex is index_num plus the number of
\* input blocks, and one block link was emitted per input block.
C5_LinkageTotality ==
    (pc = "returned" /\ ret) =>
        /\ Len(dirBlocks) = nBlocks
        /\ prevdsblocknum = TipAtStart.header.blockNum + CountDS(dirBlocks)
        /\ totalIndex = index_num + nBlocks
        /\ Len(blocklinkchain) = nBlocks
        /\ Cardinality({i \in DOMAIN effects : effects[i].op = "AddBlockLink"}) = nBlocks

\* a successful walk over a DS block and blocks of other types
C5_Witness ==
    /\ pc = "returned" /\ ret /\ nBlocks >= 3
    /\ CountDS(dirBlocks) >= 1
    /\ CountDS(dirBlocks) < nBlocks

\* C6: the links a walk adds carry totalIndex index_num, index_num + 1, ...
\* without gap, one link per accepted block and none for any other.
C6_LinksConsecutive ==
    InWalk =>
        /\ Len(blocklinkchain) = Accepted
        /\ \A i \in 1..Len(blocklinkchain) :
              /\ blocklinkchain[i][1] = index_num + i - 1
              /\ blocklinkchain[i][4] = HashOfDirBlock(dirBlocks[i])
              /\ blocklinkchain[i][3] = dirBlocks[i].kind

C6_Witness ==
    /\ pc = "returned"
    /\ Len(blocklinkchain) >= 3
    /\ blocklinkchain[3][1] = index_num + 2
    /\ index_num > 0

\* the keys under which the accepted blocks are persisted
PersistedKeys(blocks) ==
    {<<blocks[i].kind,
       IF blocks[i].kind = "DS" THEN blocks[i].header.blockNum
       ELSE HashOfDirBlock(blocks[i])>> : i \in DOMAIN blocks}

\* the DS blocks among `blocks`, in order
RECURSIVE DSBlocksOf(_)
DSBlocksOf(blocks) ==
    IF blocks = <<>> THEN <<>>
    ELSE (IF Head(blocks).kind = "DS" THEN <<Head(blocks)>> ELSE <<>>)
         \o DSBlocksOf(Tail(blocks))

\* the side effects present are exactly those of the accepted prefix
EffectsAreOfAcceptedPrefix ==
    /\ Len(blocklinkchain) = Accepted
    /\ \A i \in 1..Len(blocklinkchain) :
          blocklinkchain[i][4] = HashOfDirBlock(dirBlocks[i])
    /\ {<<e[1], e[2]>> : e \in blockStorage} = PersistedKeys(AcceptedPrefix)
    /\ SubSeq(dsBlockChain, 2, Len(dsBlockChain)) = DSBlocksOf(AcceptedPrefix)
    /\ \A i \in DOMAIN effects : effects[i].pos <= Accepted

\* C7: the walk stops at the first block that fails a check; the block that
\* fails leaves links, storage, DS chain and roster as they were, no block is
\* read after it, and on exit the side effects are those of the accepted
\* prefix, still in place.
C7_StopsAtFirstFailure ==
    /\ [](pc \in {"returned", "threw"} => EffectsAreOfAcceptedPrefix)
    /\ [][(pc = "walk" /\ ret /\ (~ret' \/ pc' = "threw")) =>
             UNCHANGED <<collabVars, mutable_ds_comm, totalIndex,
                         prevdsblocknum, prevShardingHash>>]_vars
    /\ [][(pc = "walk" /\ ~ret) =>
             (pc' = "returned" /\ pos' = pos /\ dirBlocks' = dirBlocks
              /\ UNCHANGED <<collabVars, mutable_ds_comm>>)]_vars

\* a walk returned false after an accepted prefix, with input left unread
C7_Witness ==
    /\ pc = "returned" /\ ~ret
    /\ pos >= 2 /\ pos < nBlocks
    /\ Len(blocklinkchain) = pos - 1
    /\ Len(dsBlockChain) >= 2

\* the committee mutation of one accepted block
CommitteeMutation(comm, b) ==
    IF b.kind = "DS" THEN UpdateDSCommiteeComposition(comm, b.header.powWinners)
    ELSE IF b.kind = "VC"
    THEN UpdateRetrieveDSCommiteeCompositionAfterVC(b.header.faultyLeaders, comm)
    ELSE UpdateDSCommitteeAfterFallback(
            b.m_fallbackblock.header.shardId, b.m_fallbackblock.header.leaderPubKey,
            b.m_fallbackblock.header.leaderNetworkInfo, comm, b.m_shards)

RECURSIVE RosterAfter(_, _)
RosterAfter(comm, blocks) ==
    IF blocks = <<>> THEN comm
    ELSE RosterAfter(CommitteeMutation(comm, Head(blocks)), Tail(blocks))

RECURSIVE LastShardingHash(_, _)
LastShardingHash(tipHash, before) ==
    IF before = <<>> THEN tipHash
    ELSE LastShardingHash(
            IF Head(before).kind = "DS" THEN Head(before).header.shardingHash
            ELSE tipHash,
            Tail(before))

\* the element read last is a fallback block whose shards do not hash to the
\* shardingHash of the last accepted DS block (or of the tip at the start)
LastIsMismatchedFallback ==
    /\ InWalk /\ pos >= 1
    /\ dirBlocks[pos].kind = "FB"
    /\ LET h == GetShardingStructureHash(dirBlocks[pos].m_shards)
       IN  \/ ~h.ok
           \/ h.hash # LastShardingHash(TipAtStart.header.shardingHash,
                                        SubSeq(dirBlocks, 1, pos - 1))

\* C9: such a fallback block makes the walk return false, and its
\* co-signature is never verified.
C9_MismatchedFallbackRejectedUnverified ==
    LastIsMismatchedFallback =>
        /\ ~ret
        /\ pc # "threw"
        /\ \A i \in DOMAIN cosigLog : cosigLog[i].pos # pos

\* the case: a fallback block of the right epoch, co-signed by its shard and
\* naming a shard that exists, after a DS block moved the sharding hash on
C9_Witness ==
    /\ LastIsMismatchedFallback
    /\ pc = "returned"
    /\ pos >= 2
    /\ dirBlocks[pos - 1].kind = "DS"
    /\ dirBlocks[pos].m_fallbackblock.header.fallbackDSEpochNo = prevdsblocknum + 1
    /\ dirBlocks[pos].m_fallbackblock.header.shardId < Len(dirBlocks[pos].m_shards)
    /\ CheckBlockCosignature(
          dirBlocks[pos].m_fallbackblock,
          dirBlocks[pos].m_shards[dirBlocks[pos].m_fallbackblock.header.shardId + 1]).ret

----------------------------------------------------------------------------
(* Validator::CheckTxBlocks *)

\* BlockLink: tuple (index, dsindex, blocktype, blockhash)
LinkDSIndex(link) == link[2]
LinkBlockType(link) == link[3]

\* what a call did: the verdict, the local latestDSIndex when it ended, and
\* whether the tip's co-signature was checked
TxOutcome(verdict, latestDSIndex, cosigChecked) ==
    [verdict |-> verdict, latestDSIndex |-> latestDSIndex, cosigChecked |-> cosigChecked]

\* lines 419-432: the backward walk over the parent hashes, sIndex counted
\* from 1 here
RECURSIVE HashChainHolds(_, _, _)
HashChainHolds(blocks, prevBlockHash, sIndex) ==
    IF sIndex < 1 THEN TRUE
    ELSE IF prevBlockHash # blocks[sIndex].header.myHash THEN FALSE
    ELSE HashChainHolds(blocks, blocks[sIndex].header.prevHash, sIndex - 1)

\* mutant: any tip under another DS block than expected is reported as stale
\* DS information
TxBlocksAgainst_StaleEitherWay(blocks, comm, latestDSIndex) ==
    IF Len(blocks) = 0
    THEN {TxOutcome(v, latestDSIndex, c) :
             v \in {"VALID", "INVALID", "STALEDSINFO", "crash"}, c \in BOOLEAN}
    ELSE
      LET latestTxBlock == blocks[Len(blocks)]
      IN  IF latestTxBlock.header.dsBlockNum # latestDSIndex
          THEN {TxOutcome("STALEDSINFO", latestDSIndex, FALSE)}
          ELSE IF ~CheckBlockCosignature(latestTxBlock, comm).ret
          THEN {TxOutcome("INVALID", latestDSIndex, TRUE)}
          ELSE IF Len(blocks) < 2
          THEN {TxOutcome("VALID", latestDSIndex, TRUE)}
          ELSE IF HashChainHolds(blocks, latestTxBlock.header.prevHash, Len(blocks) - 1)
          THEN {TxOutcome("VALID", latestDSIndex, TRUE)}
          ELSE {TxOutcome("INVALID", latestDSIndex, TRUE)}

\* mutant: only the tip's parent hash is compared
TxBlocksAgainst_OnlyLastPair(blocks, comm, latestDSIndex) ==
    IF Len(blocks) = 0
    THEN {TxOutcome(v, latestDSIndex, c) :
             v \in {"VALID", "INVALID", "STALEDSINFO", "crash"}, c \in BOOLEAN}
    ELSE
      LET latestTxBlock == blocks[Len(blocks)]
      IN  IF latestTxBlock.header.dsBlockNum # latestDSIndex
          THEN IF latestDSIndex > latestTxBlock.header.dsBlockNum
               THEN {TxOutcome("INVALID", latestDSIndex, FALSE)}
               ELSE {TxOutcome("STALEDSINFO", latestDSIndex, FALSE)}
          ELSE IF ~CheckBlockCosignature(latestTxBlock, comm).ret
          THEN {TxOutcome("INVALID", latestDSIndex, TRUE)}
          ELSE IF Len(blocks) < 2
          THEN {TxOutcome("VALID", latestDSIndex, TRUE)}
          ELSE IF latestTxBlock.header.prevHash = blocks[Len(blocks) - 1].header.myHash
          THEN {TxOutcome("VALID", latestDSIndex, TRUE)}
          ELSE {TxOutcome("INVALID", latestDSIndex, TRUE)}

\* lines 393-435, with latestDSIndex settled
TxBlocksAgainst(blocks, comm, latestDSIndex) ==
    IF Len(blocks) = 0
    THEN \* txBlocks.back() on an empty vector: undefined behaviour
         {TxOutcome(v, latestDSIndex, c) :
             v \in {"VALID", "INVALID", "STALEDSINFO", "crash"}, c \in BOOLEAN}
    ELSE
      LET latestTxBlock == blocks[Len(blocks)]
      IN  IF latestTxBlock.header.dsBlockNum # latestDSIndex
          THEN IF latestDSIndex > latestTxBlock.header.dsBlockNum
               THEN {TxOutcome("INVALID", latestDSIndex, FALSE)}
               ELSE {TxOutcome("STALEDSINFO", latestDSIndex, FALSE)}
          ELSE IF ~CheckBlockCosignature(latestTxBlock, comm).ret
          THEN {TxOutcome("INVALID", latestDSIndex, TRUE)}
          ELSE IF Len(blocks) < 2
          THEN {TxOutcome("VALID", latestDSIndex, TRUE)}
          ELSE IF HashChainHolds(blocks, latestTxBlock.header.prevHash, Len(blocks) - 1)
          THEN {TxOutcome("VALID", latestDSIndex, TRUE)}
          ELSE {TxOutcome("INVALID", latestDSIndex, TRUE)}

\* mutant: the DS index of a VC or fallback link is used as it is
CheckTxBlocks_NoDecrement(blocks, comm, link) ==
    IF LinkBlockType(link) # "DS" /\ LinkDSIndex(link) = 0
    THEN {TxOutcome("INVALID", LinkDSIndex(link), FALSE)}
    ELSE TxBlocksAgainst(blocks, comm, LinkDSIndex(link))

\* lines 379-391: the outcomes the call can have
CheckTxBlocks(blocks, comm, link) ==
    IF LinkBlockType(link) # "DS"
    THEN IF LinkDSIndex(link) = 0
         THEN {TxOutcome("INVALID", LinkDSIndex(link), FALSE)}
         ELSE TxBlocksAgainst(blocks, comm, LinkDSIndex(link) - 1)
    ELSE TxBlocksAgainst(blocks, comm, LinkDSIndex(link))

----------------------------------------------------------------------------
(* CheckTxBlocks: inputs *)

\* tx block under DS block dsNum, with its own hash and its parent's, co-signed
\* by all of the DS committee that c DS blocks produce
TxBlock(dsNum, myHash, prevHash, c) ==
    LET hdr == [blockNum |-> myHash, dsBlockNum |-> dsNum,
                prevHash |-> prevHash, myHash |-> myHash]
        B2  == AllSet(DirCommSize)
    IN  CosignedBlock(hdr, B2, B2, DSCommAfter(c), SetBits(B2), TRUE)

TxHashes == 1..2

\* the last block of a sequence
TipTxBlocks ==
    {TxBlock(d, h, p, c) : d \in 0..MaxTxDS, h \in TxHashes, p \in TxHashes, c \in 0..1}

\* the blocks before it, co-signed by the committee of the tip or, for one
\* of them, by another
OlderTxBlocks ==
    {TxBlock(0, h, p, 0) : h \in TxHashes, p \in TxHashes} \cup {TxBlock(0, 1, 1, 1)}

\* the largest DS committee, and tips co-signed by all of it or by exactly
\* NumForConsensus of it
LargeDSComm == Roster(MaxComm)

LargeCommTips ==
    {CosignedBlock([blockNum |-> 1, dsBlockNum |-> d, prevHash |-> p, myHash |-> 1],
                   AllSet(MaxComm), [i \in 1..MaxComm |-> i <= k],
                   LargeDSComm, 1..k, TRUE) :
        d \in 0..MaxTxDS, p \in TxHashes, k \in {NumForConsensus(MaxComm), MaxComm}}

\* the sequences of n blocks handed to CheckTxBlocks
TxSequences(n) ==
    IF n = 0 THEN {<<>>}
    ELSE {Append(older, tip) : older \in [1..(n - 1) -> OlderTxBlocks],
                               tip \in TipTxBlocks \cup LargeCommTips}

\* the committee a sequence is checked against: the one of the tip's bitmap
\* length
DSCommFor(blocks) ==
    IF Len(blocks) > 0 /\ Len(blocks[Len(blocks)].B2) = MaxComm
    THEN LargeDSComm
    ELSE DSCommAfter(0)

BlockLinks ==
    {<<7, d, t, 0>> : d \in 0..MaxTxDS, t \in {"DS", "VC", "FB"}}

InitTx ==
    /\ pc = "tx_call"
    /\ \E n \in 0..MaxTxBlocks : txBlocks \in TxSequences(n)
    /\ dsComm = DSCommFor(txBlocks)
    /\ latestBlockLink \in BlockLinks
    /\ txRet = None
    /\ CosigIdle /\ DirIdle /\ TxnIdle /\ CollabInitAt(0) /\ AcctIdle

\* mutant: the call takes the tip off the vector it was handed
CallCheckTxBlocks_ConsumesInput ==
    /\ pc = "tx_call"
    /\ txRet' \in CheckTxBlocks(txBlocks, dsComm, latestBlockLink)
    /\ txBlocks' = IF Len(txBlocks) > 0 THEN SubSeq(txBlocks, 1, Len(txBlocks) - 1)
                   ELSE txBlocks
    /\ pc' = "tx_done"
    /\ UNCHANGED <<dsComm, latestBlockLink, cosigVars, dirVars, collabVars, txnVars,
                   acctVars>>

CallCheckTxBlocks ==
    /\ pc = "tx_call"
    /\ txRet' \in CheckTxBlocks(txBlocks, dsComm, latestBlockLink)
    /\ pc' = "tx_done"
    /\ UNCHANGED <<txBlocks, dsComm, latestBlockLink, cosigVars, dirVars, collabVars,
                   txnVars,
                   acctVars>>

NextTx == CallCheckTxBlocks

SpecTx == InitTx /\ [][NextTx]_vars

----------------------------------------------------------------------------
(* Claims about CheckTxBlocks *)

\* the DS epoch the tx blocks are expected under, as C10 states it
ExpectedDSEpoch(link) ==
    IF LinkBlockType(link) = "DS" THEN LinkDSIndex(link) ELSE LinkDSIndex(link) - 1

\* C10: the expected DS epoch is the DS index of latestBlockLink for a DS
\* link; a VC or FB link with DS index 0 gives INVALID; otherwise it is the DS
\* index minus one. The tip's co-signature is checked only for a tip under
\* that epoch.
C10_ExpectedDSEpoch ==
    pc = "tx_done" =>
        IF LinkBlockType(latestBlockLink) # "DS" /\ LinkDSIndex(latestBlockLink) = 0
        THEN txRet.verdict = "INVALID" /\ ~txRet.cosigChecked
        ELSE /\ txRet.latestDSIndex = ExpectedDSEpoch(latestBlockLink)
             /\ (Len(txBlocks) > 0 /\ txRet.cosigChecked) =>
                   txBlocks[Len(txBlocks)].header.dsBlockNum
                      = ExpectedDSEpoch(latestBlockLink)
             /\ (Len(txBlocks) > 0 /\ txRet.verdict = "VALID") =>
                   txBlocks[Len(txBlocks)].header.dsBlockNum
                      = ExpectedDSEpoch(latestBlockLink)

\* a VC link with DS index 1 and a tip under DS block 0 was found VALID
C10_Witness ==
    /\ pc = "tx_done"
    /\ LinkBlockType(latestBlockLink) = "VC"
    /\ LinkDSIndex(latestBlockLink) = 1
    /\ Len(txBlocks) >= 2
    /\ txRet.verdict = "VALID"
    /\ txRet.latestDSIndex = 0

\* a link that settles an expected DS epoch: a DS link, or a VC or FB link
\* whose DS index is not 0
HasExpectedDSEpoch(link) ==
    LinkBlockType(link) = "DS" \/ LinkDSIndex(link) # 0

\* the last block of the sequence handed to CheckTxBlocks
TipOf(blocks) == blocks[Len(blocks)]

\* C11: for a sequence with a tip whose DS block number differs from the
\* expected DS epoch, the verdict is INVALID when the expected epoch is the
\* greater and STALEDSINFO when the tip's DS block number is the greater, and
\* no co-signature is verified; STALEDSINFO is the verdict of no other call.
C11_StaleOrInvalidOnEpochMismatch ==
    (pc = "tx_done" /\ Len(txBlocks) > 0) =>
        LET tipDS    == TipOf(txBlocks).header.dsBlockNum
            expected == ExpectedDSEpoch(latestBlockLink)
        IN  /\ (HasExpectedDSEpoch(latestBlockLink) /\ tipDS # expected) =>
                  /\ ~txRet.cosigChecked
                  /\ txRet.verdict = IF expected > tipDS THEN "INVALID"
                                     ELSE "STALEDSINFO"
            /\ txRet.verdict = "STALEDSINFO" =>
                  /\ HasExpectedDSEpoch(latestBlockLink)
                  /\ tipDS > expected

\* a tip one DS block ahead of the expected epoch was reported as stale DS
\* information, without a co-signature check
C11_Witness ==
    /\ pc = "tx_done"
    /\ Len(txBlocks) >= 2
    /\ HasExpectedDSEpoch(latestBlockLink)
    /\ TipOf(txBlocks).header.dsBlockNum = ExpectedDSEpoch(latestBlockLink) + 1
    /\ txRet.verdict = "STALEDSINFO"
    /\ ~txRet.cosigChecked

\* C12: a VALID verdict for a sequence of two or more blocks means every
\* adjacent pair is linked: the hash of block i is the parent hash of block
\* i+1.
C12_ValidMeansAllPairsLinked ==
    (pc = "tx_done" /\ Len(txBlocks) >= 2 /\ txRet.verdict = "VALID") =>
        \A i \in 1..(Len(txBlocks) - 1) :
            txBlocks[i].header.myHash = txBlocks[i + 1].header.prevHash

\* a sequence of three blocks, so with a pair that is not the last, was found
\* VALID
C12_Witness ==
    /\ pc = "tx_done"
    /\ Len(txBlocks) >= 3
    /\ txRet.verdict = "VALID"
    /\ txBlocks[1].header.myHash # txBlocks[2].header.myHash

\* every adjacent pair of the sequence is hash-linked
AllPairsLinked(blocks) ==
    \A i \in 1..(Len(blocks) - 1) :
        blocks[i].header.myHash = blocks[i + 1].header.prevHash

\* C13: a non-empty sequence whose tip is under the expected DS epoch, whose
\* tip carries a co-signature of dsComm that verifies, and whose adjacent
\* blocks are all hash-linked is found VALID, whatever the co-signature fields
\* of the blocks before the tip are.
C13_LinkedCosignedSequenceIsValid ==
    (/\ pc = "tx_done" /\ Len(txBlocks) > 0
     /\ HasExpectedDSEpoch(latestBlockLink)
     /\ TipOf(txBlocks).header.dsBlockNum = ExpectedDSEpoch(latestBlockLink)
     /\ ContractVerdict(TipOf(txBlocks), dsComm)
     /\ AllPairsLinked(txBlocks))
        => txRet.verdict = "VALID"

\* the same with "verifies" read as "CheckBlockCosignature returns true"
LinkedAcceptedTipIsValid ==
    (/\ pc = "tx_done" /\ Len(txBlocks) > 0
     /\ HasExpectedDSEpoch(latestBlockLink)
     /\ TipOf(txBlocks).header.dsBlockNum = ExpectedDSEpoch(latestBlockLink)
     /\ CheckBlockCosignature(TipOf(txBlocks), dsComm).ret
     /\ AllPairsLinked(txBlocks))
        => txRet.verdict = "VALID"

----------------------------------------------------------------------------
(* Collaborators of the transaction checks *)

\* the chain identifier this node is configured with
CHAIN_ID == 1

\* DataConversion::UnpackA: the high 16 bits of the packed 32-bit version
UnpackA(version) == (version \div 65536) % 65536

\* the version word that carries chain identifier a and version number b
Pack(a, b) == a * 65536 + b

\* Address(): the null address, which is also NullAddress
NullAddress == 0

\* Account::GetAddressFromPublicKey: a fixed digest of the key
GetAddressFromPublicKey(pubKey) == pubKey % 4

\* Transaction::GetShardIndex: the shard an address belongs to
GetShardIndex(addr, nShards) == addr % nShards

\* Transaction::SerializeCoreFields
SerializeCoreFields(t) ==
    <<t.version, t.toAddr, t.senderPubKey, t.amount, t.gasPrice, t.data>>

\* Schnorr::Verify(message, signature, key)
SchnorrVerify(message, signature, pubKey) ==
    signature.msg = message /\ signature.key = pubKey

\* AccountStore::IsAccountExist and AccountStore::GetBalance
IsAccountExist(store, addr) == addr \in DOMAIN store
GetBalance(store, addr) == store[addr].balance

\* AccountStore::UpdateAccountsTemp: accepts a transfer the tentative balance
\* of the sender covers, and applies it to the temporary store
UpdateAccountsTemp(temp, blockNum, nShards, isDS, t, rcpt) ==
    LET fromAddr == GetAddressFromPublicKey(t.senderPubKey)
    IN  IF ~IsAccountExist(temp, fromAddr) \/ temp[fromAddr].balance < t.amount
        THEN [ok |-> FALSE, temp |-> temp]
        ELSE LET debited ==
                    [temp EXCEPT ![fromAddr] =
                        [balance |-> @.balance - t.amount, nonce |-> @.nonce + 1]]
             IN  [ok |-> TRUE,
                  temp |-> IF IsAccountExist(debited, t.toAddr)
                           THEN [debited EXCEPT ![t.toAddr].balance = @ + t.amount]
                           ELSE debited]

----------------------------------------------------------------------------
(* Validator::VerifyTransaction, Validator::CheckCreatedTransaction,
   Validator::CheckCreatedTransactionFromLookup *)

\* lines 34-40
VerifyTransaction(t) ==
    SchnorrVerify(SerializeCoreFields(t), t.signature, t.senderPubKey)

\* what a call did: the verdict, the checks it evaluated in order, the receipt
\* and the temporary store it left, and its UpdateAccountsTemp calls
TxnOutcome(r, checks, rcpt, temp, calls) ==
    [ret |-> r, checks |-> checks, receipt |-> rcpt, accountStoreTemp |-> temp,
     updateCalls |-> calls]

\* mutant: the balance of the sender is not compared with the amount
CheckCreatedTransaction_NoBalanceCheck(t, rcpt) ==
    IF LOOKUP_NODE_MODE
    THEN TxnOutcome(TRUE, <<>>, rcpt, accountStoreTemp, <<>>)
    ELSE
    LET fromAddr == GetAddressFromPublicKey(t.senderPubKey)
        isDS     == m_mode # "IDLE"
        stamped  == [rcpt EXCEPT !.epochNum = m_currentEpochNum]
        updated  == UpdateAccountsTemp(accountStoreTemp, m_currentEpochNum,
                                       numShards, isDS, t, stamped)
    IN  IF UnpackA(t.version) # CHAIN_ID
        THEN TxnOutcome(FALSE, <<"chainId">>, rcpt, accountStoreTemp, <<>>)
        ELSE IF fromAddr = NullAddress
        THEN TxnOutcome(FALSE, <<"chainId", "fromAddr">>, rcpt, accountStoreTemp, <<>>)
        ELSE IF ~IsAccountExist(accountStore, fromAddr)
        THEN TxnOutcome(FALSE, <<"chainId", "fromAddr", "exists">>, rcpt,
                        accountStoreTemp, <<>>)
        ELSE TxnOutcome(updated.ok, <<"chainId", "fromAddr", "exists">>,
                        stamped, updated.temp,
                        <<<<m_currentEpochNum, numShards, isDS, t>>>>)

\* mutant: a lookup node runs the checks like any other node
CheckCreatedTransaction_ChecksOnLookup(t, rcpt) ==
    LET fromAddr == GetAddressFromPublicKey(t.senderPubKey)
        isDS     == m_mode # "IDLE"
        stamped  == [rcpt EXCEPT !.epochNum = m_currentEpochNum]
        updated  == UpdateAccountsTemp(accountStoreTemp, m_currentEpochNum,
                                       numShards, isDS, t, stamped)
    IN  IF UnpackA(t.version) # CHAIN_ID
        THEN TxnOutcome(FALSE, <<"chainId">>, rcpt, accountStoreTemp, <<>>)
        ELSE IF fromAddr = NullAddress
        THEN TxnOutcome(FALSE, <<"chainId", "fromAddr">>, rcpt, accountStoreTemp, <<>>)
        ELSE IF ~IsAccountExist(accountStore, fromAddr)
        THEN TxnOutcome(FALSE, <<"chainId", "fromAddr", "exists">>, rcpt,
                        accountStoreTemp, <<>>)
        ELSE IF GetBalance(accountStore, fromAddr) < t.amount
        THEN TxnOutcome(FALSE, <<"chainId", "fromAddr", "exists", "balance">>, rcpt,
                        accountStoreTemp, <<>>)
        ELSE TxnOutcome(updated.ok, <<"chainId", "fromAddr", "exists", "balance">>,
                        stamped, updated.temp,
                        <<<<m_currentEpochNum, numShards, isDS, t>>>>)

\* mutant: the receipt is handed to UpdateAccountsTemp without its epoch number
CheckCreatedTransaction_NoStamp(t, rcpt) ==
    IF LOOKUP_NODE_MODE
    THEN TxnOutcome(TRUE, <<>>, rcpt, accountStoreTemp, <<>>)
    ELSE
    LET fromAddr == GetAddressFromPublicKey(t.senderPubKey)
        isDS     == m_mode # "IDLE"
        updated  == UpdateAccountsTemp(accountStoreTemp, m_currentEpochNum,
                                       numShards, isDS, t, rcpt)
    IN  IF UnpackA(t.version) # CHAIN_ID
        THEN TxnOutcome(FALSE, <<"chainId">>, rcpt, accountStoreTemp, <<>>)
        ELSE IF fromAddr = NullAddress
        THEN TxnOutcome(FALSE, <<"chainId", "fromAddr">>, rcpt, accountStoreTemp, <<>>)
        ELSE IF ~IsAccountExist(accountStore, fromAddr)
        THEN TxnOutcome(FALSE, <<"chainId", "fromAddr", "exists">>, rcpt,
                        accountStoreTemp, <<>>)
        ELSE IF GetBalance(accountStore, fromAddr) < t.amount
        THEN TxnOutcome(FALSE, <<"chainId", "fromAddr", "exists", "balance">>, rcpt,
                        accountStoreTemp, <<>>)
        ELSE TxnOutcome(updated.ok, <<"chainId", "fromAddr", "exists", "balance">>,
                        rcpt, updated.temp,
                        <<<<m_currentEpochNum, numShards, isDS, t>>>>)

\* lines 42-91
CheckCreatedTransaction(t, rcpt) ==
    IF LOOKUP_NODE_MODE
    THEN TxnOutcome(TRUE, <<>>, rcpt, accountStoreTemp, <<>>)
    ELSE
    LET fromAddr == GetAddressFromPublicKey(t.senderPubKey)
        isDS     == m_mode # "IDLE"
        stamped  == [rcpt EXCEPT !.epochNum = m_currentEpochNum]
        updated  == UpdateAccountsTemp(accountStoreTemp, m_currentEpochNum,
                                       numShards, isDS, t, stamped)
    IN  IF UnpackA(t.version) # CHAIN_ID
        THEN TxnOutcome(FALSE, <<"chainId">>, rcpt, accountStoreTemp, <<>>)
        ELSE IF fromAddr = NullAddress
        THEN TxnOutcome(FALSE, <<"chainId", "fromAddr">>, rcpt, accountStoreTemp, <<>>)
        ELSE IF ~IsAccountExist(accountStore, fromAddr)
        THEN TxnOutcome(FALSE, <<"chainId", "fromAddr", "exists">>, rcpt,
                        accountStoreTemp, <<>>)
        ELSE IF GetBalance(accountStore, fromAddr) < t.amount
        THEN TxnOutcome(FALSE, <<"chainId", "fromAddr", "exists", "balance">>, rcpt,
                        accountStoreTemp, <<>>)
        ELSE TxnOutcome(updated.ok, <<"chainId", "fromAddr", "exists", "balance">>,
                        stamped, updated.temp,
                        <<<<m_currentEpochNum, numShards, isDS, t>>>>)

\* mutant: the gas price is not compared with that of the last DS block
CheckCreatedTransactionFromLookup_NoGasFloor(t) ==
    IF LOOKUP_NODE_MODE
    THEN TxnOutcome(TRUE, <<>>, receipt, accountStoreTemp, <<>>)
    ELSE
    LET fromAddr == GetAddressFromPublicKey(t.senderPubKey)
        correct_shard_from == GetShardIndex(fromAddr, numShards)
        correct_shard_to   == GetShardIndex(t.toAddr, numShards)
        routesTo == Len(t.data) > 0 /\ t.toAddr # NullAddress
        \* the checks evaluated up to the end of the IDLE block
        routed == IF m_mode # "IDLE" THEN <<"chainId", "fromAddr">>
                  ELSE IF routesTo THEN <<"chainId", "fromAddr", "shardFrom", "shardTo">>
                  ELSE <<"chainId", "fromAddr", "shardFrom">>
        Reject(checks) == TxnOutcome(FALSE, checks, receipt, accountStoreTemp, <<>>)
    IN  IF UnpackA(t.version) # CHAIN_ID
        THEN Reject(<<"chainId">>)
        ELSE IF fromAddr = NullAddress
        THEN Reject(<<"chainId", "fromAddr">>)
        ELSE IF m_mode = "IDLE" /\ correct_shard_from # nodeShardId
        THEN Reject(<<"chainId", "fromAddr", "shardFrom">>)
        ELSE IF m_mode = "IDLE" /\ routesTo /\ correct_shard_to # correct_shard_from
        THEN Reject(routed)
        ELSE IF ~VerifyTransaction(t)
        THEN Reject(routed \o <<"signature">>)
        ELSE IF ~IsAccountExist(accountStore, fromAddr)
        THEN Reject(routed \o <<"signature", "exists">>)
        ELSE IF GetBalance(accountStore, fromAddr) < t.amount
        THEN Reject(routed \o <<"signature", "exists", "balance">>)
        ELSE TxnOutcome(TRUE, routed \o <<"signature", "exists", "balance">>,
                        receipt, accountStoreTemp, <<>>)

\* lines 93-184
CheckCreatedTransactionFromLookup(t) ==
    IF LOOKUP_NODE_MODE
    THEN TxnOutcome(TRUE, <<>>, receipt, accountStoreTemp, <<>>)
    ELSE
    LET fromAddr == GetAddressFromPublicKey(t.senderPubKey)
        correct_shard_from == GetShardIndex(fromAddr, numShards)
        correct_shard_to   == GetShardIndex(t.toAddr, numShards)
        routesTo == Len(t.data) > 0 /\ t.toAddr # NullAddress
        \* the checks evaluated up to the end of the IDLE block
        routed == IF m_mode # "IDLE" THEN <<"chainId", "fromAddr">>
                  ELSE IF routesTo THEN <<"chainId", "fromAddr", "shardFrom", "shardTo">>
                  ELSE <<"chainId", "fromAddr", "shardFrom">>
        Reject(checks) == TxnOutcome(FALSE, checks, receipt, accountStoreTemp, <<>>)
    IN  IF UnpackA(t.version) # CHAIN_ID
        THEN Reject(<<"chainId">>)
        ELSE IF fromAddr = NullAddress
        THEN Reject(<<"chainId", "fromAddr">>)
        ELSE IF m_mode = "IDLE" /\ correct_shard_from # nodeShardId
        THEN Reject(<<"chainId", "fromAddr", "shardFrom">>)
        ELSE IF m_mode = "IDLE" /\ routesTo /\ correct_shard_to # correct_shard_from
        THEN Reject(routed)
        ELSE IF t.gasPrice < GetLastBlock(dsBlockChain).header.gasPrice
        THEN Reject(routed \o <<"gasPrice">>)
        ELSE IF ~VerifyTransaction(t)
        THEN Reject(routed \o <<"gasPrice", "signature">>)
        ELSE IF ~IsAccountExist(accountStore, fromAddr)
        THEN Reject(routed \o <<"gasPrice", "signature", "exists">>)
        ELSE IF GetBalance(accountStore, fromAddr) < t.amount
        THEN Reject(routed \o <<"gasPrice", "signature", "exists", "balance">>)
        ELSE TxnOutcome(TRUE, routed \o <<"gasPrice", "signature", "exists", "balance">>,
                        receipt, accountStoreTemp, <<>>)

----------------------------------------------------------------------------
(* The transaction checks: inputs and steps *)

\* sender keys: 60 hashes to the null address, 61 and 62 to accounts the store
\* holds, 63 to an address without an account
SenderPubKeys == 60..63

\* the key of somebody else than the holder of key k
OtherPubKey(k) == k + 10

ToAddrs == 0..2
Amounts == 0..2
GasPrices == 0..2
Payloads == {<<>>, <<1>>}

\* a transaction; its signature is made with signerKey over its core fields
Transaction(chainId, senderPubKey, toAddr, amount, gasPrice, data, signerKey) ==
    LET core == [version |-> Pack(chainId, 1), senderPubKey |-> senderPubKey,
                 toAddr |-> toAddr, amount |-> amount, gasPrice |-> gasPrice,
                 data |-> data]
    IN  [version |-> core.version, senderPubKey |-> senderPubKey,
         toAddr |-> toAddr, amount |-> amount, gasPrice |-> gasPrice,
         data |-> data,
         signature |-> [msg |-> SerializeCoreFields(core), key |-> signerKey]]

Transactions ==
    {Transaction(c, k, to, a, g, d, IF own THEN k ELSE OtherPubKey(k)) :
        c \in {CHAIN_ID, CHAIN_ID + 1}, k \in SenderPubKeys, to \in ToAddrs,
        a \in Amounts, g \in GasPrices, d \in Payloads, own \in BOOLEAN}

\* the account store: address 1 holds 1, address 2 holds 2
Accounts ==
    [a \in 1..2 |-> [balance |-> a, nonce |-> 0]]

\* the temporary store: a copy of the account store, or one that earlier
\* tentative transfers have drained
TempStores ==
    {Accounts, [a \in 1..2 |-> [balance |-> 0, nonce |-> a]]}

\* the last DS block, with the gas price it sets
DSBlockWithGasPrice(g) ==
    [kind |-> "DS", blockHash |-> 0,
     header |-> [blockNum |-> 0, shardingHash |-> HashA, gasPrice |-> g]]

EmptyReceipt == [epochNum |-> 0]

InitTxn ==
    /\ pc = "txn_call"
    /\ LOOKUP_NODE_MODE \in BOOLEAN
    /\ m_mode \in {"IDLE", "PRIMARY_DS"}
    /\ numShards \in 1..2
    /\ nodeShardId \in 0..(numShards - 1)
    /\ m_currentEpochNum = 7
    /\ tx \in Transactions
    /\ receipt = EmptyReceipt
    /\ accountStore = Accounts
    /\ accountStoreTemp \in TempStores
    /\ txnRet = None
    /\ dsBlockChain = <<DSBlockWithGasPrice(1)>>
    /\ blocklinkchain = <<>> /\ blockStorage = {} /\ effects = <<>>
    /\ CosigIdle /\ DirIdle /\ TxIdle /\ AcctIdle

\* what the caller sees of a call of entry point `entry` with outcome o
Returned(entry, o) ==
    [entry |-> entry, ret |-> o.ret, checks |-> o.checks, updateCalls |-> o.updateCalls]

CallCheckCreatedTransaction ==
    /\ pc = "txn_call"
    /\ LET o == CheckCreatedTransaction(tx, receipt)
       IN  /\ txnRet' = Returned("CheckCreatedTransaction", o)
           /\ receipt' = o.receipt
           /\ accountStoreTemp' = o.accountStoreTemp
    /\ pc' = "txn_done"
    /\ UNCHANGED <<nodeVars, tx, accountStore, cosigVars, dirVars, collabVars, txVars,
                   acctVars>>

\* mutant: an accepted transaction is applied to the temporary store
CallCheckCreatedTransactionFromLookup_AppliesTx ==
    /\ pc = "txn_call"
    /\ LET o == CheckCreatedTransactionFromLookup(tx)
       IN  /\ txnRet' = Returned("CheckCreatedTransactionFromLookup", o)
           /\ receipt' = o.receipt
           /\ accountStoreTemp' =
                 IF o.ret /\ ~LOOKUP_NODE_MODE
                 THEN UpdateAccountsTemp(accountStoreTemp, m_currentEpochNum, numShards,
                                         m_mode # "IDLE", tx, receipt).temp
                 ELSE o.accountStoreTemp
    /\ pc' = "txn_done"
    /\ UNCHANGED <<nodeVars, tx, accountStore, cosigVars, dirVars, collabVars, txVars,
                   acctVars>>

CallCheckCreatedTransactionFromLookup ==
    /\ pc = "txn_call"
    /\ LET o == CheckCreatedTransactionFromLookup(tx)
       IN  /\ txnRet' = Returned("CheckCreatedTransactionFromLookup", o)
           /\ receipt' = o.receipt
           /\ accountStoreTemp' = o.accountStoreTemp
    /\ pc' = "txn_done"
    /\ UNCHANGED <<nodeVars, tx, accountStore, cosigVars, dirVars, collabVars, txVars,
                   acctVars>>

NextTxn ==
    \/ CallCheckCreatedTransaction
    \/ CallCheckCreatedTransactionFromLookup

SpecTxn == InitTxn /\ [][NextTxn]_vars

----------------------------------------------------------------------------
(* Claims about CheckTxBlocks and about all entry points *)

\* C14: a call of CheckTxBlocks, whatever its input and verdict, leaves the DS
\* block chain, the block-link chain, block storage, the account store, the
\* committee and the tx-block sequence as they were.
C14_CheckTxBlocksIsPure ==
    [][(pc = "tx_call" /\ pc' = "tx_done") =>
          UNCHANGED <<dsBlockChain, blocklinkchain, blockStorage, effects,
                      accountStore, accountStoreTemp, dsComm, txBlocks>>]_vars

\* a call on three linked blocks ended VALID with the collaborators untouched
C14_Witness ==
    /\ pc = "tx_done"
    /\ Len(txBlocks) >= 3
    /\ txRet.verdict = "VALID"
    /\ dsBlockChain = <<TipDSBlock(0)>>
    /\ effects = <<>>

C16_EveryCallReturnsAVerdict ==
    /\ pc # "threw"
    /\ pc = "tx_done" => txRet.verdict \in {"VALID", "INVALID", "STALEDSINFO"}

----------------------------------------------------------------------------
(* Claims about the transaction checks *)

\* the sender address of the transaction being checked
FromAddr == GetAddressFromPublicKey(tx.senderPubKey)

\* one of the four checks CheckCreatedTransaction makes itself fails
OwnCheckFails ==
    \/ UnpackA(tx.version) # CHAIN_ID
    \/ FromAddr = NullAddress
    \/ ~IsAccountExist(accountStore, FromAddr)
    \/ GetBalance(accountStore, FromAddr) < tx.amount

\* a step that is a call of the named entry point
IsCallOf(entry) == pc = "txn_call" /\ txnRet'.entry = entry

AdmittedFromLookup ==
    /\ UnpackA(tx.version) = CHAIN_ID
    /\ FromAddr # NullAddress
    /\ m_mode = "IDLE" =>
          /\ GetShardIndex(FromAddr, numShards) = nodeShardId
          /\ (Len(tx.data) > 0 /\ tx.toAddr # NullAddress) =>
                GetShardIndex(tx.toAddr, numShards) = GetShardIndex(FromAddr, numShards)
    /\ tx.gasPrice >= GetLastBlock(dsBlockChain).header.gasPrice
    /\ tx.signature.key = tx.senderPubKey
    /\ tx.signature.msg = SerializeCoreFields(tx)
    /\ IsAccountExist(accountStore, FromAddr)
    /\ GetBalance(accountStore, FromAddr) >= tx.amount

C19_FromLookupIsPure ==
    [][IsCallOf("CheckCreatedTransactionFromLookup") =>
          UNCHANGED <<accountStore, accountStoreTemp, receipt, tx, nodeVars,
                      dsBlockChain, blocklinkchain, blockStorage, effects>>]_vars

\* a transfer of a positive amount was admitted and the temporary store still
\* holds the balances of the account store
C19_Witness ==
    /\ pc = "txn_done" /\ txnRet.entry = "CheckCreatedTransactionFromLookup"
    /\ ~LOOKUP_NODE_MODE
    /\ txnRet.ret
    /\ tx.amount > 0
    /\ IsAccountExist(accountStore, tx.toAddr)
    /\ accountStoreTemp = accountStore

\* C20: on a lookup node both checks return true for every transaction,
\* evaluate no check, make no account-store call and leave the receipt
\* unstamped.
C20_LookupNodeAcceptsUnchecked ==
    [][(pc = "txn_call" /\ LOOKUP_NODE_MODE) =>
          /\ txnRet'.ret
          /\ txnRet'.checks = <<>>
          /\ txnRet'.updateCalls = <<>>
          /\ UNCHANGED <<receipt, accountStore, accountStoreTemp>>]_vars

\* on a lookup node CheckCreatedTransaction returned true for a transaction of
\* another chain that its sender cannot pay
C20_Witness ==
    /\ pc = "txn_done" /\ txnRet.entry = "CheckCreatedTransaction"
    /\ LOOKUP_NODE_MODE
    /\ UnpackA(tx.version) # CHAIN_ID
    /\ IsAccountExist(accountStore, FromAddr)
    /\ GetBalance(accountStore, FromAddr) < tx.amount
    /\ txnRet.ret
    /\ receipt = EmptyReceipt

----------------------------------------------------------------------------
(* Claims about the order and the frame of the CheckDirBlocks side effects *)

\* the operations logged for the element at input position p, in the order
\* they were made
EffectOpsAt(p) ==
    LET mine == SelectSeq(effects, LAMBDA e : e.pos = p)
    IN  [i \in 1..Len(mine) |-> mine[i].op]

\* C21: the side effects of accepted blocks are committed in input order: in
\* the log every effect of the block at position i comes before every effect
\* of the block at a later position j, each step only appends to the log, and
\* links and DS-chain blocks stand in the order of the blocks they are for.
C21_EffectsInInputOrder ==
    /\ [](InWalk =>
            /\ \A a, b \in DOMAIN effects :
                  a < b => effects[a].pos <= effects[b].pos
            /\ \A i \in 1..Accepted : EffectOpsAt(i) # <<>>
            /\ \A i \in 1..Len(blocklinkchain) :
                  blocklinkchain[i][4] = HashOfDirBlock(dirBlocks[i])
            /\ SubSeq(dsBlockChain, 2, Len(dsBlockChain)) = DSBlocksOf(AcceptedPrefix))
    /\ [][pc = "walk" =>
             /\ Len(effects') >= Len(effects)
             /\ SubSeq(effects', 1, Len(effects)) = effects
             /\ \A k \in (Len(effects) + 1)..Len(effects') : effects'[k].pos = pos']_vars

\* three blocks, a DS block among them, were accepted one after the other
C21_Witness ==
    /\ pc = "returned" /\ ret /\ Accepted >= 3
    /\ CountDS(AcceptedPrefix) >= 1
    /\ dirBlocks[1].kind # dirBlocks[2].kind
    /\ effects[1].pos = 1
    /\ effects[Len(effects)].pos = 3

\* C22: the walk works on a copy of the roster it is handed: from the start
\* of the call on initDsComm stays as it is, whether the walk succeeds, fails
\* or is cut short, and the caller's newDSComm is written at the return only.
C22_InputRosterUntouched ==
    /\ [][pc # "idle" => initDsComm' = initDsComm]_vars
    /\ [](pc \in {"walk", "threw"} => newDSComm = StaleComm)
    /\ [](pc = "returned" => newDSComm = mutable_ds_comm)

\* a walk that changed the roster has returned it, the input roster being the
\* one the walk started from
C22_Witness ==
    /\ pc = "returned"
    /\ Accepted >= 1
    /\ newDSComm # initDsComm
    /\ initDsComm = DSCommAfter(0)
    /\ ~ret

\* C23: an accepted DS block has its effects made in the order block link,
\* PutDSBlock, append to the DS chain, committee update, the link being
\* (totalIndex, prevDS + 1, DS, hash).
C23_DSBlockEffectOrder ==
    InWalk =>
        \A i \in 1..Accepted :
            dirBlocks[i].kind = "DS" =>
                /\ EffectOpsAt(i) = <<"AddBlockLink", "PutDSBlock", "AddBlock",
                                      "UpdateDSCommiteeComposition">>
                /\ blocklinkchain[i] =
                      <<index_num + i - 1, dirBlocks[i].header.blockNum, "DS",
                        dirBlocks[i].blockHash>>

\* the order the code has: the DS chain is appended to before the block is
\* persisted
DSBlockEffectOrderOfCode ==
    InWalk =>
        \A i \in 1..Accepted :
            dirBlocks[i].kind = "DS" =>
                /\ EffectOpsAt(i) = <<"AddBlockLink", "AddBlock", "PutDSBlock",
                                      "UpdateDSCommiteeComposition">>
                /\ blocklinkchain[i] =
                      <<index_num + i - 1, dirBlocks[i].header.blockNum, "DS",
                        dirBlocks[i].blockHash>>

\* a step of the walk that accepts an element of the given kind
AcceptsKind(kind) ==
    /\ pc = "walk" /\ pc' = "walk"
    /\ pos' = pos + 1
    /\ ret'
    /\ dirBlocks'[pos'].kind = kind

\* C24: a VC block is accepted only if its view-change DS epoch is prevDS + 1
\* and its co-signature verifies against the roster as it stands before the
\* block; accepting it appends the link (totalIndex, prevDS + 1, VC, hash),
\* advances totalIndex by one and leaves prevDS, prevShardingHash and the live
\* DS chain as they were.
C24_VCBlockAcceptance ==
    [][AcceptsKind("VC") =>
        LET vcblock == dirBlocks'[pos']
        IN  /\ vcblock.header.viewChangeDSEpochNo = prevdsblocknum + 1
            /\ CheckBlockCosignature(vcblock, mutable_ds_comm).ret
            /\ blocklinkchain' =
                  Append(blocklinkchain,
                         <<totalIndex, prevdsblocknum + 1, "VC", vcblock.blockHash>>)
            /\ totalIndex' = totalIndex + 1
            /\ UNCHANGED <<prevdsblocknum, prevShardingHash, dsBlockChain>>]_vars

\* a VC block was accepted after a DS block had moved prevDS and the roster on
C24_Witness ==
    /\ pc = "returned" /\ ret
    /\ Accepted >= 2
    /\ dirBlocks[1].kind = "DS"
    /\ dirBlocks[2].kind = "VC"
    /\ blocklinkchain[2][2] = dirBlocks[1].header.blockNum + 1
    /\ index_num > 0

\* C25: a fallback block is accepted only if its fallback DS epoch is
\* prevDS + 1, its bundled sharding structure hashes to prevShardingHash and
\* its co-signature verifies against the committee of the shard its header
\* names, which is the only committee the walk hands to the check; accepting
\* it appends the link (totalIndex, prevDS + 1, FB, hash), advances totalIndex
\* by one and leaves prevDS and prevShardingHash as they were.
C25_FallbackBlockAcceptance ==
    [][AcceptsKind("FB") =>
        LET fallbackblock == dirBlocks'[pos'].m_fallbackblock
            shards        == dirBlocks'[pos'].m_shards
            shard_id      == fallbackblock.header.shardId
            h             == GetShardingStructureHash(shards)
        IN  /\ fallbackblock.header.fallbackDSEpochNo = prevdsblocknum + 1
            /\ h.ok /\ h.hash = prevShardingHash
            /\ shard_id < Len(shards)
            /\ CheckBlockCosignature(fallbackblock, shards[shard_id + 1]).ret
            /\ Len(cosigLog') = Len(cosigLog) + 1
            /\ cosigLog'[Len(cosigLog')].pos = pos'
            /\ cosigLog'[Len(cosigLog')].comm = shards[shard_id + 1]
            /\ blocklinkchain' =
                  Append(blocklinkchain,
                         <<totalIndex, prevdsblocknum + 1, "FB",
                           fallbackblock.blockHash>>)
            /\ totalIndex' = totalIndex + 1
            /\ UNCHANGED <<prevdsblocknum, prevShardingHash>>]_vars

\* a fallback block of the second shard was accepted after a DS block
C25_Witness ==
    /\ pc = "returned" /\ ret
    /\ Accepted >= 2
    /\ dirBlocks[1].kind = "DS"
    /\ dirBlocks[2].kind = "FB"
    /\ dirBlocks[2].m_fallbackblock.header.shardId = 1
    /\ blocklinkchain[2][2] = prevdsblocknum + 1
    /\ blocklinkchain[2][3] = "FB"

----------------------------------------------------------------------------
(* Claims about the receipt and about the bitmaps *)

\* C26: when CheckCreatedTransaction returns true on a node that is no lookup
\* node, the epoch number of the receipt is m_currentEpochNum.
C26_AcceptedReceiptCarriesEpoch ==
    (/\ pc = "txn_done"
     /\ txnRet.entry = "CheckCreatedTransaction"
     /\ ~LOOKUP_NODE_MODE
     /\ txnRet.ret)
    => receipt.epochNum = m_currentEpochNum

\* a transaction was accepted on a shard node and applied to the temporary
\* store, and the receipt the caller passed in has changed
C26_Witness ==
    /\ pc = "txn_done" /\ txnRet.entry = "CheckCreatedTransaction"
    /\ ~LOOKUP_NODE_MODE
    /\ txnRet.ret
    /\ Len(txnRet.updateCalls) = 1
    /\ accountStoreTemp # Accounts
    /\ receipt # EmptyReceipt
    /\ receipt.epochNum = m_currentEpochNum

\* C27: every block CheckBlockCosignature accepts with a roster has a B1 and a
\* B2 of the roster's length.
C27_AcceptedBitmapsAlignWithRoster ==
    (pc = "cosig_done" /\ cosigRet.ret) =>
        /\ Len(commKeys) = Len(block.B1)
        /\ Len(commKeys) = Len(block.B2)

\* what lines 194-200 establish: the accepted block's B2 has the roster's length
AcceptedB2AlignsWithRoster ==
    (pc = "cosig_done" /\ cosigRet.ret) => Len(commKeys) = Len(block.B2)

----------------------------------------------------------------------------
(* CheckTxBlocks on one thread while CheckDirBlocks walks on another *)

\* the CheckTxBlocks call of the second thread has not been made yet
PendingTx == TxOutcome("pending", 0, FALSE)

\* the sequences handed to the concurrent call: none, one block under DS
\* block 0, and two linked blocks the later of which is under DS block 1
ConcTxSequences ==
    {<<>>,
     <<TxBlock(0, 1, 1, 0)>>,
     <<TxBlock(0, 1, 1, 0), TxBlock(1, 2, 1, 0)>>}

\* the links handed to it: the DS link of DS block 0, the VC link and the DS
\* link of DS epoch 1
ConcBlockLinks == {<<7, 0, "DS", 0>>, <<7, 1, "VC", 0>>, <<7, 1, "DS", 0>>}

InitConc ==
    /\ pc = "idle"
    /\ CollabInitAt(0)
    /\ txBlocks \in ConcTxSequences
    /\ dsComm = DSCommAfter(0)
    /\ latestBlockLink \in ConcBlockLinks
    /\ txRet = PendingTx
    /\ CosigIdle /\ DirIdle /\ TxnIdle /\ AcctIdle

\* lines 379-435, run by a thread of its own at any point of the walk: the
\* function reads its three arguments and nothing else, so it is one step
ConcurrentCheckTxBlocks ==
    /\ txRet = PendingTx
    /\ txRet' \in CheckTxBlocks(txBlocks, dsComm, latestBlockLink)
    /\ UNCHANGED <<pc, txBlocks, dsComm, latestBlockLink, cosigVars, dirVars,
                   collabVars, txnVars,
                   acctVars>>

NextConc ==
    \/ NextDir
    \/ ConcurrentCheckTxBlocks

SpecConc == InitConc /\ [][NextConc]_vars

NonEmptyVerdictIndependentOfInterleaving ==
    /\ [](( txRet # PendingTx /\ Len(txBlocks) > 0) =>
            \A o \in CheckTxBlocks(txBlocks, dsComm, latestBlockLink) :
                txRet.verdict = o.verdict)
    /\ [][txRet' # txRet => UNCHANGED <<pc, dirVars, collabVars>>]_vars

\* the call was made on two linked blocks after the walk had appended a DS
\* block to the live DS chain, and ended VALID
ConcurrentCallMidWalk ==
    /\ pc = "walk"
    /\ Len(dsBlockChain) >= 2
    /\ Len(txBlocks) = 2
    /\ txRet.verdict = "VALID"

----------------------------------------------------------------------------
(* CheckDirBlocks called again by the same caller after it has returned *)

\* the walks after the first are let start while the DS chain and the
\* block-link chain together hold no more than this many blocks and links
MaxCarried == 3

\* lines 242-255 on a later call: the caller, having seen a short walk return,
\* calls again with the roster and the index the earlier walk left; the
\* collaborators are as the earlier walks left them
CheckDirBlocksAgain ==
    /\ pc = "returned"
    /\ nBlocks <= 1
    /\ Len(dsBlockChain) + Len(blocklinkchain) <= MaxCarried
    /\ \E n \in 0..MaxDirBlocks : nBlocks' = n
    /\ initDsComm' = newDSComm
    /\ index_num' = totalIndex
    /\ mutable_ds_comm' = newDSComm
    /\ totalIndex' = totalIndex
    /\ dirBlocks' = <<>>
    /\ pos' = 0
    /\ newDSComm' = StaleComm
    /\ ret' = TRUE
    /\ prevdsblocknum' = GetLastBlock(dsBlockChain).header.blockNum
    /\ prevShardingHash' = GetLastBlock(dsBlockChain).header.shardingHash
    /\ cosigLog' = <<>>
    /\ pc' = "walk"
    /\ UNCHANGED <<cosigVars, collabVars, txVars, txnVars,
                   acctVars>>

NextWalks ==
    \/ NextDir
    \/ CheckDirBlocksAgain

SpecWalks == InitDir /\ [][NextWalks]_vars

\* C29: before each element is dispatched and on exit, prevdsblocknum is the
\* number of the last block of the live DS chain and prevShardingHash is that
\* block's shardingHash; so over walks made one after the other the DS chain
\* holds consecutive block numbers, none missing and none twice.
C29_WalkerTracksDSChainTip ==
    /\ InWalk =>
          /\ prevdsblocknum = GetLastBlock(dsBlockChain).header.blockNum
          /\ prevShardingHash = GetLastBlock(dsBlockChain).header.shardingHash
    /\ \A i \in 1..(Len(dsBlockChain) - 1) :
          dsBlockChain[i + 1].header.blockNum = dsBlockChain[i].header.blockNum + 1

\* a second walk has appended a DS block to a chain an earlier walk had
\* appended one to, having started from a tip that was not there at first
C29_Witness ==
    /\ pc = "returned" /\ ret
    /\ Accepted >= 1
    /\ Len(blocklinkchain) > Accepted
    /\ dirBlocks[Accepted].kind = "DS"
    /\ Len(dsBlockChain) = 3
    /\ prevShardingHash # dsBlockChain[2].header.shardingHash

\* the link the walk emitted last
LastEmittedLink == blocklinkchain[Len(blocklinkchain)]

\* a tx block under the DS block at the tip of the live DS chain
TxBlockUnderTip == TxBlock(GetLastBlock(dsBlockChain).header.blockNum, 1, 1, 0)

\* C30: when a walk has emitted a link, CheckTxBlocks handed the last emitted
\* link computes as expected DS epoch the number of the DS chain tip (the
\* index of a DS link, the index of a VC or FB link less one) and goes on to
\* the tip's co-signature; it never answers INVALID for a VC or FB link of DS
\* index 0.
C30_WalkersAgreeOnDSEpoch ==
    (InWalk /\ Accepted >= 1) =>
        /\ ~(LinkBlockType(LastEmittedLink) # "DS" /\ LinkDSIndex(LastEmittedLink) = 0)
        /\ \A o \in CheckTxBlocks(<<TxBlockUnderTip>>, DSCommAfter(0), LastEmittedLink) :
              /\ o.latestDSIndex = GetLastBlock(dsBlockChain).header.blockNum
              /\ o.cosigChecked

\* a walk from tip 0 accepted a VC or fallback block first, and a walk ended
\* on a fallback link after it had appended a DS block
C30_Witness ==
    /\ pc = "returned" /\ ret
    /\ Accepted >= 2
    /\ LinkBlockType(LastEmittedLink) = "FB"
    /\ LinkDSIndex(LastEmittedLink) = 2
    /\ GetLastBlock(dsBlockChain).header.blockNum = 1
    /\ dirBlocks[1].kind = "DS"

----------------------------------------------------------------------------
(* Claims about the roster a block is verified against *)

\* C31: the co-signature of the DS or VC block at input position k is verified
\* against the initial roster with the committee mutations of the accepted
\* blocks 1..k-1 of every type applied, and the block's own mutation is
\* applied after that verification has passed: a block that is refused leaves
\* the roster as it was, an accepted one was verified against the roster
\* before its own mutation.
C31_VerifiedAgainstEvolvedRoster ==
    /\ [](InWalk =>
            \A i \in DOMAIN cosigLog :
                dirBlocks[cosigLog[i].pos].kind \in {"DS", "VC"} =>
                    cosigLog[i].comm =
                        RosterAfter(initDsComm,
                                    SubSeq(dirBlocks, 1, cosigLog[i].pos - 1)))
    /\ [][(pc = "walk" /\ pos' = pos + 1 /\ dirBlocks'[pos'].kind \in {"DS", "VC"}) =>
            IF ret'
            THEN /\ Len(cosigLog') = Len(cosigLog) + 1
                 /\ cosigLog'[Len(cosigLog')].ret
                 /\ cosigLog'[Len(cosigLog')].comm = mutable_ds_comm
                 /\ mutable_ds_comm' =
                       CommitteeMutation(mutable_ds_comm, dirBlocks'[pos'])
            ELSE mutable_ds_comm' = mutable_ds_comm]_vars

\* a DS block was verified against a roster that a DS block and a VC block
\* before it had changed, and then changed it again
C31_Witness ==
    /\ pc = "returned" /\ ret
    /\ Accepted >= 3
    /\ dirBlocks[1].kind = "DS"
    /\ dirBlocks[2].kind = "VC"
    /\ dirBlocks[3].kind = "DS"
    /\ Len(cosigLog) = 3
    /\ cosigLog[3].comm # initDsComm
    /\ cosigLog[3].comm # RosterAfter(initDsComm, SubSeq(dirBlocks, 1, 1))
    /\ newDSComm # cosigLog[3].comm

----------------------------------------------------------------------------
(* Claims about the receipt of a refused transaction *)

\* C32: when CheckCreatedTransaction returns false on a node that is no lookup
\* node, the receipt is as the caller passed it in.
C32_RefusedLeavesReceipt ==
    (/\ pc = "txn_done"
     /\ txnRet.entry = "CheckCreatedTransaction"
     /\ ~LOOKUP_NODE_MODE
     /\ ~txnRet.ret)
    => receipt = EmptyReceipt

\* what holds of the code: a transaction refused by one of the four checks of
\* lines 54-84 leaves the receipt as it was
RefusedByOwnCheckLeavesReceipt ==
    (/\ pc = "txn_done"
     /\ txnRet.entry = "CheckCreatedTransaction"
     /\ ~LOOKUP_NODE_MODE
     /\ txnRet.updateCalls = <<>>)
    => (~txnRet.ret /\ receipt = EmptyReceipt)

----------------------------------------------------------------------------
(* Account::IncreaseBalance, Account::DecreaseBalance, Account::ChangeBalance *)

\* uint128_t is modelled with this many bits, int256_t with twice as many
BalanceBits == 3

\* one past the largest uint128_t
Uint128Range == 2 ^ BalanceBits

Uint128s == 0..(Uint128Range - 1)

Int256s == (0 - 2 ^ (2 * BalanceBits - 1))..(2 ^ (2 * BalanceBits - 1) - 1)

\* uint128_t(x) for a non-negative int256_t x: the low bits of x
ToUint128(x) == x % Uint128Range

\* SafeMath<uint128_t>::add(a, b, result): false on overflow, with result as
\* it was; else result = a + b
SafeMathAdd(a, b) ==
    LET c == (a + b) % Uint128Range
    IN  IF c < a THEN [ok |-> FALSE, result |-> a] ELSE [ok |-> TRUE, result |-> c]

\* SafeMath<uint128_t>::sub(a, b, result): false on underflow, with result as
\* it was; else result = a - b
SafeMathSub(a, b) ==
    IF b > a THEN [ok |-> FALSE, result |-> a] ELSE [ok |-> TRUE, result |-> a - b]

\* lines 201-203
IncreaseBalance(balance, d) == SafeMathAdd(balance, d)

\* lines 205-211
DecreaseBalance(balance, d) ==
    IF balance < d THEN [ok |-> FALSE, result |-> balance]
    ELSE SafeMathSub(balance, d)

\* lines 213-216
ChangeBalance(balance, d) ==
    IF d >= 0 THEN IncreaseBalance(balance, ToUint128(d))
    ELSE DecreaseBalance(balance, ToUint128(0 - d))

AcctCalls == {"acct_increase", "acct_decrease", "acct_change"}

InitAcct ==
    /\ pc \in AcctCalls
    /\ m_balance \in Uint128s
    /\ delta \in IF pc = "acct_change" THEN Int256s ELSE Uint128s
    /\ acctRet = None
    /\ CosigIdle /\ DirIdle /\ CollabInitAt(0) /\ TxIdle /\ TxnIdle

\* the call has returned r
AcctReturn(r) ==
    /\ m_balance' = r.result
    /\ acctRet' = r.ok
    /\ pc' = "acct_done"
    /\ UNCHANGED <<delta, cosigVars, dirVars, collabVars, txVars, txnVars>>

CallIncreaseBalance ==
    /\ pc = "acct_increase"
    /\ AcctReturn(IncreaseBalance(m_balance, delta))

CallDecreaseBalance ==
    /\ pc = "acct_decrease"
    /\ AcctReturn(DecreaseBalance(m_balance, delta))

CallChangeBalance ==
    /\ pc = "acct_change"
    /\ AcctReturn(ChangeBalance(m_balance, delta))

NextAcct ==
    \/ CallIncreaseBalance
    \/ CallDecreaseBalance
    \/ CallChangeBalance

SpecAcct == InitAcct /\ [][NextAcct]_vars

\* the change of the balance the call asks for
SignedDelta == IF pc = "acct_decrease" THEN 0 - delta ELSE delta

\* the call returns true with the balance changed by exactly the delta, or
\* false with the balance as it was
ExactOrRefused ==
    /\ m_balance' \in Uint128s
    /\ \/ acctRet' = TRUE /\ m_balance' = m_balance + SignedDelta
       \/ acctRet' = FALSE /\ m_balance' = m_balance
    /\ (pc = "acct_decrease" /\ m_balance < delta) => acctRet' = FALSE
    /\ (pc = "acct_increase" /\ m_balance + delta >= Uint128Range) => acctRet' = FALSE

\* C33: for every balance and every delta, IncreaseBalance, DecreaseBalance and
\* ChangeBalance return true with the balance changed by exactly delta or
\* false with the balance unchanged, DecreaseBalance refusing a delta above
\* the balance, IncreaseBalance one that overflows, and ChangeBalance behaving
\* so for every int256_t delta, also one of magnitude 2^128 or more; the
\* balance never wraps around.
C33_BalanceExactOrRefused ==
    [][(pc \in AcctCalls /\ pc' = "acct_done") => ExactOrRefused]_vars

\* what holds of the code: the same for IncreaseBalance, for DecreaseBalance
\* and for ChangeBalance with a delta whose magnitude a uint128_t holds
InRangeBalanceExactOrRefused ==
    [][(/\ pc \in AcctCalls /\ pc' = "acct_done"
        /\ delta < Uint128Range /\ 0 - delta < Uint128Range) => ExactOrRefused]_vars

====
